---------------------------- MODULE Spec2Model ----------------------------
(***************************************************************************)
(* Model of the spectral-index engine of satellite-explorer                *)
(* (src/src/utils/indices.py): the catalog COMMON_INDICES, the band        *)
(* guesser guess_band_types, the resolver get_available_indices and the    *)
(* evaluator calculate_index.                                              *)
(*                                                                         *)
(* Representation of Python values:                                        *)
(*   - a str that is only compared is a TLA+ string; a band name, which    *)
(*     is lower-cased and searched by regular expressions, is a sequence   *)
(*     of one-character strings;                                           *)
(*   - a dict is [type |-> "dict", items |-> f] with f a function on its   *)
(*     keys, None is [type |-> "NoneType"], a list is                      *)
(*     [type |-> "list", items |-> <<...>>];                               *)
(*   - a numpy array is [type |-> "ndarray", data |-> <<cells>>], its      *)
(*     cells in row-major order;                                           *)
(*   - a float32 cell is NaN, +Inf, -Inf or a finite value held as an      *)
(*     exact fraction n/d in lowest terms.  Rounding to 24 bits and the    *)
(*     sign of zero are not modelled: the cell values of the model are     *)
(*     small enough for every sum and product to be exact.                 *)
(***************************************************************************)
EXTENDS Integers, Sequences, FiniteSets, TLC

VARIABLES
    COMMON_INDICES, \* the module-level catalog (indices.py:10)
    band_names,     \* argument of guess_band_types
    bands,          \* argument of calculate_index
    band_mapping,   \* argument of get_available_indices / calculate_index
    index_name,     \* argument of calculate_index
    pc,             \* "call" before the function has run, "done" after;
                    \* "gui" while the application's event loop runs
    ret,            \* what the call produced: a return value or a raise
    indices_panel,  \* the IndicesPanel object (indices_panel.py:17)
    plot_panel,     \* the PlotPanel object (plot_panel.py:22)
    control_panel,  \* the ControlPanel object (control_panel.py:14)
    messagebox,     \* the message box the last GUI handler showed, if any
    recorded        \* history: the calls of calculate_index that were
                    \* observed; in the application, the handlers that ran

vars ==
    <<COMMON_INDICES, band_names, bands, band_mapping, index_name, pc, ret,
      indices_panel, plot_panel, control_panel, messagebox, recorded>>

---------------------------------------------------------------------------
(* Bounds of the model. *)

\* Longest band-name list handed to guess_band_types.
MaxBands == 4

\* Largest position a role mapping of SpecAvail and SpecCalc holds; the
\* band lists of SpecCalc have 0, MaxPos and MaxPos + 1 bands.
MaxPos == 1

\* Cells per band array in SpecEval.
NumPixels == 1

---------------------------------------------------------------------------
(* Python values. *)

PyNone == [type |-> "NoneType"]

PyDict(f) == [type |-> "dict", items |-> f]

PyList(s) == [type |-> "list", items |-> s]

NdArray(cells) == [type |-> "ndarray", data |-> cells]

\* A value that is neither a list, a dict nor an ndarray.
PyStr == [type |-> "str"]

EmptyDict == [k \in {} |-> 0]

Returned(v) == [kind |-> "return", value |-> v]

Raised(exc, msg) == [kind |-> "raise", exc |-> exc, msg |-> msg]

NotCalled == [kind |-> "none"]

\* No IndicesPanel has been constructed: the functions of indices.py are
\* called directly.
NoPanel == [constructed |-> FALSE]

\* No message box is shown.
NoMessage == [kind |-> "none"]

Range(s) == {s[i] : i \in 1..Len(s)}

\* ', '.join(seq)
RECURSIVE Join(_)
Join(seq) ==
    IF Len(seq) = 0 THEN <<>>
    ELSE IF Len(seq) = 1 THEN <<seq[1]>>
    ELSE <<seq[1], ", ">> \o Join(Tail(seq))

---------------------------------------------------------------------------
(* float32 cells. *)

Abs(x) == IF x < 0 THEN -x ELSE x

RECURSIVE GCD(_, _)
GCD(a, b) == IF b = 0 THEN a ELSE GCD(b, a % b)

NaN == [k |-> "nan", n |-> 0, d |-> 1]

PosInf == [k |-> "inf", n |-> 1, d |-> 1]

NegInf == [k |-> "inf", n |-> -1, d |-> 1]

\* The finite value n/d (d # 0), in lowest terms with a positive denominator.
Rat(n, d) ==
    LET g == GCD(Abs(n), Abs(d))
        s == IF d < 0 THEN -1 ELSE 1
    IN  [k |-> "fin", n |-> (s * n) \div g, d |-> (s * d) \div g]

Num(n) == Rat(n, 1)

Sign(x) == IF x.n > 0 THEN 1 ELSE IF x.n < 0 THEN -1 ELSE 0

IsNaN(x) == x.k = "nan"

IsInf(x) == x.k = "inf"

IsZero(x) == x.k = "fin" /\ x.n = 0

FNeg(x) == IF x.k = "fin" THEN Rat(-x.n, x.d) ELSE [x EXCEPT !.n = -x.n]

\* IEEE-754 addition: Inf + (-Inf) is NaN.
FAdd(x, y) ==
    IF IsNaN(x) \/ IsNaN(y) THEN NaN
    ELSE IF IsInf(x) /\ IsInf(y) THEN (IF x.n = y.n THEN x ELSE NaN)
    ELSE IF IsInf(x) THEN x
    ELSE IF IsInf(y) THEN y
    ELSE Rat(x.n * y.d + y.n * x.d, x.d * y.d)

FSub(x, y) == FAdd(x, FNeg(y))

\* IEEE-754 multiplication: 0 * Inf is NaN.
FMul(x, y) ==
    IF IsNaN(x) \/ IsNaN(y) THEN NaN
    ELSE IF IsInf(x) \/ IsInf(y)
         THEN (IF Sign(x) * Sign(y) = 0 THEN NaN
               ELSE IF Sign(x) * Sign(y) > 0 THEN PosInf ELSE NegInf)
    ELSE Rat(x.n * y.n, x.d * y.d)

\* IEEE-754 division with the floating-point errors ignored (np.errstate):
\* x/0 is +Inf or -Inf for x # 0, 0/0 and Inf/Inf are NaN.
FDiv(x, y) ==
    IF IsNaN(x) \/ IsNaN(y) THEN NaN
    ELSE IF IsInf(x) /\ IsInf(y) THEN NaN
    ELSE IF IsInf(x) THEN (IF Sign(x) * (IF Sign(y) < 0 THEN -1 ELSE 1) > 0
                           THEN PosInf ELSE NegInf)
    ELSE IF IsInf(y) THEN Num(0)
    ELSE IF IsZero(y) THEN (IF IsZero(x) THEN NaN
                            ELSE IF Sign(x) > 0 THEN PosInf ELSE NegInf)
    ELSE Rat(x.n * y.d, x.d * y.n)

\* den != 0, elementwise: NaN != 0 is True.
FNonZero(x) == ~IsZero(x)

---------------------------------------------------------------------------
(* The catalog. *)

\* The expression tree of a "formula" string of the catalog, read with
\* Python's precedence: an identifier, a literal, or a binary operation.
Id(name) == [op |-> "id", id |-> name]

Lit(n) == [op |-> "lit", v |-> Num(n)]

Bin(o, l, r) == [op |-> o, l |-> l, r |-> r]

NormDiff(a, b) == Bin("/", Bin("-", Id(a), Id(b)), Bin("+", Id(a), Id(b)))

\* The entries of COMMON_INDICES as the module defines them, "key" the dict
\* key; CatalogSource lists them in the order of the dict.  An entry has a
\* "params" field only where the source gives one.
Entry_NDVI ==
    [key |-> "NDVI",
     name |-> "Normalized Difference Vegetation Index",
     formula |-> NormDiff("NIR", "Red"),
     bands |-> <<"NIR", "Red">>,
     description |-> "Measures vegetation health and density. Values range from -1 to 1, with higher values indicating denser vegetation.",
     colormap |-> "RdYlGn",
     range |-> <<Rat(-2, 10), Rat(10, 10)>>]

Entry_NDWI ==
    [key |-> "NDWI",
     name |-> "Normalized Difference Water Index (McFeeters)",
     formula |-> NormDiff("Green", "NIR"),
     bands |-> <<"Green", "NIR">>,
     description |-> "Delineates open water features. Positive values typically represent water bodies.",
     colormap |-> "Blues",
     range |-> <<Rat(-5, 10), Rat(10, 10)>>]

Entry_MNDWI ==
    [key |-> "MNDWI",
     name |-> "Modified NDWI (Xu)",
     formula |-> NormDiff("Green", "SWIR1"),
     bands |-> <<"Green", "SWIR1">>,
     description |-> "Enhanced water detection, suppresses noise from built-up/soil areas.",
     colormap |-> "Blues",
     range |-> <<Rat(-5, 10), Rat(10, 10)>>]

Entry_NDBI ==
    [key |-> "NDBI",
     name |-> "Normalized Difference Built-up Index",
     formula |-> NormDiff("SWIR1", "NIR"),
     bands |-> <<"SWIR1", "NIR">>,
     description |-> "Highlights urban areas and built-up land. Higher values indicate built-up areas.",
     colormap |-> "YlOrBr",
     range |-> <<Rat(-5, 10), Rat(5, 10)>>]

Entry_SAVI ==
    [key |-> "SAVI",
     name |-> "Soil Adjusted Vegetation Index",
     \* (NIR - Red) * (1 + L) / (NIR + Red + L)
     formula |-> Bin("/",
                     Bin("*", Bin("-", Id("NIR"), Id("Red")),
                              Bin("+", Lit(1), Id("L"))),
                     Bin("+", Bin("+", Id("NIR"), Id("Red")), Id("L"))),
     bands |-> <<"NIR", "Red">>,
     params |-> [L |-> Rat(5, 10)],
     description |-> "Minimizes soil brightness influences (L=0.5 typical). Less sensitive than NDVI to soil background.",
     colormap |-> "YlGn",
     range |-> <<Rat(-2, 10), Rat(10, 10)>>]

\* An EVI entry that lost its Blue band and its C2 parameter.
Entry_EVI_NoBlue ==
    [key |-> "EVI",
     name |-> "Enhanced Vegetation Index",
     \* G * (NIR - Red) / (NIR + C1 * Red - C2 * Blue + L)
     formula |-> Bin("/",
                     Bin("*", Id("G"), Bin("-", Id("NIR"), Id("Red"))),
                     Bin("+",
                         Bin("-",
                             Bin("+", Id("NIR"),
                                      Bin("*", Id("C1"), Id("Red"))),
                             Bin("*", Id("C2"), Id("Blue"))),
                         Id("L"))),
     bands |-> <<"NIR", "Red">>,
     params |-> [G |-> Rat(25, 10), C1 |-> Rat(60, 10),
                 L |-> Rat(10, 10)],
     description |-> "Improved sensitivity in high biomass areas, reduced atmospheric influence compared to NDVI.",
     colormap |-> "RdYlGn",
     range |-> <<Rat(-2, 10), Rat(10, 10)>>]

Entry_EVI ==
    [key |-> "EVI",
     name |-> "Enhanced Vegetation Index",
     \* G * (NIR - Red) / (NIR + C1 * Red - C2 * Blue + L)
     formula |-> Bin("/",
                     Bin("*", Id("G"), Bin("-", Id("NIR"), Id("Red"))),
                     Bin("+",
                         Bin("-",
                             Bin("+", Id("NIR"),
                                      Bin("*", Id("C1"), Id("Red"))),
                             Bin("*", Id("C2"), Id("Blue"))),
                         Id("L"))),
     bands |-> <<"NIR", "Red", "Blue">>,
     params |-> [G |-> Rat(25, 10), C1 |-> Rat(60, 10),
                 C2 |-> Rat(75, 10), L |-> Rat(10, 10)],
     description |-> "Improved sensitivity in high biomass areas, reduced atmospheric influence compared to NDVI.",
     colormap |-> "RdYlGn",
     range |-> <<Rat(-2, 10), Rat(10, 10)>>]

Entry_NDSI ==
    [key |-> "NDSI",
     name |-> "Normalized Difference Snow Index",
     formula |-> NormDiff("Green", "SWIR1"),
     bands |-> <<"Green", "SWIR1">>,
     description |-> "Used to detect snow and ice. Positive values typically represent snow cover. Separates snow from clouds.",
     colormap |-> "Blues",
     range |-> <<Rat(-5, 10), Rat(10, 10)>>]

Entry_NDMI ==
    [key |-> "NDMI",
     name |-> "Normalized Difference Moisture Index (NDWI-Gao)",
     formula |-> NormDiff("NIR", "SWIR1"),
     bands |-> <<"NIR", "SWIR1">>,
     description |-> "Sensitive to vegetation water content and soil moisture. Higher values indicate higher moisture.",
     colormap |-> "YlGnBu",
     range |-> <<Rat(-5, 10), Rat(10, 10)>>]

Entry_BSI ==
    [key |-> "BSI",
     name |-> "Bare Soil Index",
     \* ((SWIR1 + Red) - (NIR + Blue)) / ((SWIR1 + Red) + (NIR + Blue))
     formula |-> Bin("/",
                     Bin("-", Bin("+", Id("SWIR1"), Id("Red")),
                              Bin("+", Id("NIR"), Id("Blue"))),
                     Bin("+", Bin("+", Id("SWIR1"), Id("Red")),
                              Bin("+", Id("NIR"), Id("Blue")))),
     bands |-> <<"SWIR1", "Red", "NIR", "Blue">>,
     description |-> "Detects bare soil areas. Higher values indicate more exposed soil. Useful for soil mapping.",
     colormap |-> "YlOrBr",
     range |-> <<Rat(-5, 10), Rat(5, 10)>>]

\* An NBR entry that requires NIR alone.
Entry_NBR_NirOnly ==
    [key |-> "NBR",
     name |-> "Normalized Burn Ratio",
     formula |-> NormDiff("NIR", "SWIR2"),
     bands |-> <<"NIR">>,
     description |-> "Used for burn severity assessment. Compare pre/post fire. High values = healthy veg, low = burned.",
     colormap |-> "RdYlGn",
     range |-> <<Rat(-10, 10), Rat(10, 10)>>]

Entry_NBR ==
    [key |-> "NBR",
     name |-> "Normalized Burn Ratio",
     formula |-> NormDiff("NIR", "SWIR2"),
     bands |-> <<"NIR", "SWIR2">>,
     description |-> "Used for burn severity assessment. Compare pre/post fire. High values = healthy veg, low = burned.",
     colormap |-> "RdYlGn",
     range |-> <<Rat(-10, 10), Rat(10, 10)>>]

CatalogSource ==
    <<Entry_NDVI, Entry_NDWI, Entry_MNDWI, Entry_NDBI, Entry_SAVI,
      Entry_EVI, Entry_NDSI, Entry_NDMI, Entry_BSI, Entry_NBR>>

\* The keys of a catalog, in dict order.
Keys(cat) == [i \in 1..Len(cat) |-> cat[i].key]

\* name in COMMON_INDICES
InCatalog(cat, name) == \E i \in 1..Len(cat) : cat[i].key = name

\* A lookup by band list instead of key: the first entry with the bands of
\* the named one (MNDWI and NDSI have the same bands).
Lookup_SameBands(cat, name) ==
    LET named == cat[CHOOSE i \in 1..Len(cat) : cat[i].key = name]
    IN  cat[CHOOSE i \in 1..Len(cat) :
               /\ cat[i].bands = named.bands
               /\ \A h \in 1..(i - 1) : cat[h].bands # named.bands]

\* COMMON_INDICES[name]
Lookup(cat, name) == cat[CHOOSE i \in 1..Len(cat) : cat[i].key = name]

\* index_info.get("params", {})
ParamsOf(info) == IF "params" \in DOMAIN info THEN info.params ELSE EmptyDict

\* params.get(key, default)
DictGet(d, key, default) == IF key \in DOMAIN d THEN d[key] ELSE default

\* The six band types of the engine.
Roles == {"Blue", "Green", "Red", "NIR", "SWIR1", "SWIR2"}

---------------------------------------------------------------------------
(* get_available_indices *)

\* bool(band_mapping): None and the empty dict are falsy.
Truthy(m) == m.type = "dict" /\ DOMAIN m.items # {}

\* A resolver that asks for one mapped band type instead of all of them.
issubset_Any(required_bands, mapped_band_types) ==
    required_bands \cap mapped_band_types # {}

\* required_bands.issubset(mapped_band_types)
issubset(required_bands, mapped_band_types) ==
    required_bands \subseteq mapped_band_types

\* A resolver that looks at the first required band type of an entry only.
RECURSIVE AvailableUpTo_FirstRole(_, _, _)
AvailableUpTo_FirstRole(cat, mapped_band_types, i) ==
    IF i = 0 THEN <<>>
    ELSE LET rest == AvailableUpTo_FirstRole(cat, mapped_band_types, i - 1)
         IN  IF cat[i].bands[1] \in mapped_band_types
             THEN Append(rest, cat[i].key)
             ELSE rest

\* The loop over COMMON_INDICES.items(): the names of the first i entries
\* whose bands are all mapped, in catalog order.
RECURSIVE AvailableUpTo(_, _, _)
AvailableUpTo(cat, mapped_band_types, i) ==
    IF i = 0 THEN <<>>
    ELSE LET rest == AvailableUpTo(cat, mapped_band_types, i - 1)
             required_bands == Range(cat[i].bands)
         IN  IF issubset(required_bands, mapped_band_types)
             THEN Append(rest, cat[i].key)
             ELSE rest

get_available_indices(cat, m) ==
    IF ~Truthy(m) THEN <<>>
    ELSE AvailableUpTo(cat, DOMAIN m.items, Len(cat))

---------------------------------------------------------------------------
(* Regular expressions, as far as the patterns of guess_band_types use    *)
(* them.  A pattern is the sequence of its tokens: a literal character,   *)
(* "." (any character but a newline), "?" (the element before it is       *)
(* optional), \b (a word boundary) and (?! ... ) (a negative lookahead).   *)

W == "\\b"

UpperCase ==
    <<"A", "B", "C", "D", "E", "F", "G", "H", "I", "J", "K", "L", "M",
      "N", "O", "P", "Q", "R", "S", "T", "U", "V", "W", "X", "Y", "Z">>

LowerCase ==
    <<"a", "b", "c", "d", "e", "f", "g", "h", "i", "j", "k", "l", "m",
      "n", "o", "p", "q", "r", "s", "t", "u", "v", "w", "x", "y", "z">>

Digits == {"0", "1", "2", "3", "4", "5", "6", "7", "8", "9"}

\* \w
IsWordChar(c) == c \in Range(UpperCase) \cup Range(LowerCase) \cup Digits \cup {"_"}

\* str.lower(), one character
LowerChar(c) ==
    IF c \in Range(UpperCase)
    THEN LowerCase[CHOOSE i \in 1..Len(UpperCase) : UpperCase[i] = c]
    ELSE c

\* name.lower()
lower(name) == [i \in 1..Len(name) |-> LowerChar(name[i])]

\* \b before s[i] (i = Len(s) + 1: at the end of s).
AtBoundary(s, i) ==
    LET before == i > 1 /\ IsWordChar(s[i - 1])
        after == i <= Len(s) /\ IsWordChar(s[i])
    IN  before # after

\* The ")" that closes the lookahead opened at token k.
CloseParen(p, k) ==
    CHOOSE j \in k..Len(p) : p[j] = ")" /\ \A h \in k..(j - 1) : p[h] # ")"

\* Tokens k.. of p match s from s[i] on (backtracking over the optional
\* elements, greedy first).
RECURSIVE MatchAt(_, _, _, _)
MatchAt(p, k, s, i) ==
    IF k > Len(p) THEN TRUE
    ELSE IF p[k] = W THEN AtBoundary(s, i) /\ MatchAt(p, k + 1, s, i)
    ELSE IF p[k] = "(?!"
         THEN LET c == CloseParen(p, k)
              IN  /\ ~MatchAt(SubSeq(p, k + 1, c - 1), 1, s, i)
                  /\ MatchAt(p, c + 1, s, i)
    ELSE LET optional == k < Len(p) /\ p[k + 1] = "?"
             next == IF optional THEN k + 2 ELSE k + 1
             hit == /\ i <= Len(s)
                    /\ IF p[k] = "." THEN s[i] # "\n" ELSE s[i] = p[k]
         IN  \/ hit /\ MatchAt(p, next, s, i + 1)
             \/ optional /\ MatchAt(p, next, s, i)

\* re.search(pattern, string) is not None
re_search(pattern, string) ==
    \E i \in 1..(Len(string) + 1) : MatchAt(pattern, 1, string, i)

---------------------------------------------------------------------------
(* guess_band_types *)

\* The dict "patterns", in its insertion order.
patterns ==
    <<
       [band_type |-> "NIR",
        type_patterns |-> <<
            \* \bb8a\b
            <<W, "b", "8", "a", W>>,
            \* \bb08a\b
            <<W, "b", "0", "8", "a", W>>,
            \* nir.?narrow
            <<"n", "i", "r", ".", "?", "n", "a", "r", "r", "o", "w">>,
            \* nir.?broad
            <<"n", "i", "r", ".", "?", "b", "r", "o", "a", "d">>,
            \* near.?infra
            <<"n", "e", "a", "r", ".", "?", "i", "n", "f", "r", "a">>,
            \* \bnir\b
            <<W, "n", "i", "r", W>>,
            \* \bb8\b
            <<W, "b", "8", W>>,
            \* \bb0?8\b
            <<W, "b", "0", "?", "8", W>>,
            \* \bband.?8\b
            <<W, "b", "a", "n", "d", ".", "?", "8", W>>,
            \* \bb5\b
            <<W, "b", "5", W>>,
            \* \bb0?5\b
            <<W, "b", "0", "?", "5", W>>,
            \* \bband.?5\b
            <<W, "b", "a", "n", "d", ".", "?", "5", W>> >>],
       [band_type |-> "SWIR2",
        type_patterns |-> <<
            \* \bb12\b
            <<W, "b", "1", "2", W>>,
            \* \bb0?12\b
            <<W, "b", "0", "?", "1", "2", W>>,
            \* \bband.?12
            <<W, "b", "a", "n", "d", ".", "?", "1", "2">>,
            \* \bswir.?2\b
            <<W, "s", "w", "i", "r", ".", "?", "2", W>>,
            \* \bswir.?2.2
            <<W, "s", "w", "i", "r", ".", "?", "2", ".", "2">>,
            \* \bb7\b
            <<W, "b", "7", W>>,
            \* \bb0?7\b
            <<W, "b", "0", "?", "7", W>>,
            \* \bband.?7\b
            <<W, "b", "a", "n", "d", ".", "?", "7", W>> >>],
       [band_type |-> "SWIR1",
        type_patterns |-> <<
            \* \bb11\b
            <<W, "b", "1", "1", W>>,
            \* \bb0?11\b
            <<W, "b", "0", "?", "1", "1", W>>,
            \* \bband.?11
            <<W, "b", "a", "n", "d", ".", "?", "1", "1">>,
            \* \bswir.?1\b
            <<W, "s", "w", "i", "r", ".", "?", "1", W>>,
            \* \bswir.?1.6
            <<W, "s", "w", "i", "r", ".", "?", "1", ".", "6">>,
            \* \bswir\b(?!.?2)
            <<W, "s", "w", "i", "r", W, "(?!", ".", "?", "2", ")">>,
            \* \bb6\b
            <<W, "b", "6", W>>,
            \* \bb0?6\b
            <<W, "b", "0", "?", "6", W>>,
            \* \bband.?6\b
            <<W, "b", "a", "n", "d", ".", "?", "6", W>> >>],
       [band_type |-> "Red",
        type_patterns |-> <<
            \* \bred\b
            <<W, "r", "e", "d", W>>,
            \* \bb4\b
            <<W, "b", "4", W>>,
            \* \bb0?4\b
            <<W, "b", "0", "?", "4", W>>,
            \* \bband.?4
            <<W, "b", "a", "n", "d", ".", "?", "4">> >>],
       [band_type |-> "Green",
        type_patterns |-> <<
            \* \bgreen\b
            <<W, "g", "r", "e", "e", "n", W>>,
            \* \bb3\b
            <<W, "b", "3", W>>,
            \* \bb0?3\b
            <<W, "b", "0", "?", "3", W>>,
            \* \bband.?3
            <<W, "b", "a", "n", "d", ".", "?", "3">> >>],
       [band_type |-> "Blue",
        type_patterns |-> <<
            \* \bblue\b
            <<W, "b", "l", "u", "e", W>>,
            \* \bb2\b
            <<W, "b", "2", W>>,
            \* \bb0?2\b
            <<W, "b", "0", "?", "2", W>>,
            \* \bband.?2
            <<W, "b", "a", "n", "d", ".", "?", "2">>,
            \* coastal
            <<"c", "o", "a", "s", "t", "a", "l">>,
            \* aerosol
            <<"a", "e", "r", "o", "s", "o", "l">>,
            \* \bb1\b
            <<W, "b", "1", W>>,
            \* \bb0?1\b
            <<W, "b", "0", "?", "1", W>>,
            \* \bband.?1
            <<W, "b", "a", "n", "d", ".", "?", "1">> >>] >>

\* band_mapping[key] = value
Put(d, key, value) ==
    [x \in DOMAIN d \cup {key} |-> IF x = key THEN value ELSE d[x]]

Min(S) == CHOOSE x \in S : \A y \in S : x <= y

\* for pattern in type_patterns: if re.search(pattern, name_lower): some
\* pattern of the type is found in the lower-cased name.
AnyPatternFound(type_patterns, name) ==
    \E q \in 1..Len(type_patterns) : re_search(type_patterns[q], lower(name))

\* Band names of the model: Sentinel-2 codes of the NIR and SWIR bands, a
\* generic SWIR name, colour names, short Landsat codes, a name that two
\* band types match, and a name no pattern matches.
BandNameVocab ==
    { <<"B", "8", "A">>,
      <<"B", "0", "8">>,
      <<"B", "1", "2">>,
      <<"S", "W", "I", "R">>,
      <<"R", "e", "d">>,
      <<"B", "3">>,
      <<"B", "2">>,
      <<"B", "a", "n", "d", " ", "1", "1">>,
      <<"x", "1">> }

\* AnyPatternFound for the j-th band type, tabulated over the band names of
\* the model so that the searches are made once.
FoundTable ==
    UNION { {<<j, nm>> : nm \in {n \in BandNameVocab :
                                   AnyPatternFound(patterns[j].type_patterns, n)}} :
            j \in 1..Len(patterns) }

TypeFound(j, name) ==
    IF name \in BandNameVocab THEN <<j, name>> \in FoundTable
    ELSE AnyPatternFound(patterns[j].type_patterns, name)

\* A scan without the test "if i in assigned_indices: continue".
MatchingPositions_IgnoreAssigned(names, j, assigned_indices) ==
    {i \in 0..(Len(names) - 1) : TypeFound(j, names[i + 1])}

\* The 0-based positions the inner loops can stop at for the j-th band
\* type: not yet assigned, and some pattern of the type is found in the name.
MatchingPositions(names, j, assigned_indices) ==
    {i \in 0..(Len(names) - 1) :
        i \notin assigned_indices /\ TypeFound(j, names[i + 1])}

\* The loop over patterns.items(), after its first j band types: each type
\* takes the first position the scan of band_names stops at.
RECURSIVE ScanTypes(_, _)
ScanTypes(names, j) ==
    IF j = 0 THEN [band_mapping |-> EmptyDict, assigned_indices |-> {}]
    ELSE LET st == ScanTypes(names, j - 1)
             band_type == patterns[j].band_type
             hits == MatchingPositions(names, j, st.assigned_indices)
         IN  IF band_type \in DOMAIN st.band_mapping THEN st
             ELSE IF hits = {} THEN st
             ELSE [band_mapping |-> Put(st.band_mapping, band_type, Min(hits)),
                   assigned_indices |-> st.assigned_indices \cup {Min(hits)}]

\* A fallback that forgets the positions the pattern scan has consumed.
FallbackAssign_Unchecked(m, assigned_indices, band_type, pos) ==
    IF band_type \notin DOMAIN m THEN Put(m, band_type, pos) ELSE m

\* if band_type not in band_mapping and pos not in assigned_indices:
\*     band_mapping[band_type] = pos
FallbackAssign(m, assigned_indices, band_type, pos) ==
    IF band_type \notin DOMAIN m /\ pos \notin assigned_indices
    THEN Put(m, band_type, pos)
    ELSE m

\* A fallback whose first branch is taken from three bands on.
PositionalFallback_ThreeOrMore(st, num_bands) ==
    LET a == st.assigned_indices
        m == st.band_mapping
    IN  IF num_bands >= 3
        THEN FallbackAssign(
                 FallbackAssign(
                     FallbackAssign(
                         FallbackAssign(m, a, "Blue", 1),
                         a, "Green", 2),
                     a, "Red", 3),
                 a, "NIR", 4)
        ELSE m

\* The fallback on the band count; it does not add to assigned_indices.
PositionalFallback(st, num_bands) ==
    LET a == st.assigned_indices
        m == st.band_mapping
    IN  IF num_bands >= 4
        THEN FallbackAssign(
                 FallbackAssign(
                     FallbackAssign(
                         FallbackAssign(m, a, "Blue", 1),
                         a, "Green", 2),
                     a, "Red", 3),
                 a, "NIR", 4)
        ELSE IF num_bands = 3
        THEN FallbackAssign(
                 FallbackAssign(
                     FallbackAssign(m, a, "Red", 0),
                     a, "Green", 1),
                 a, "Blue", 2)
        ELSE m

\* A rename in the other direction: a key "SWIR1" becomes "SWIR".
RenameSwir_Reversed(m) ==
    IF "SWIR1" \in DOMAIN m /\ "SWIR" \notin DOMAIN m
    THEN [x \in (DOMAIN m \ {"SWIR1"}) \cup {"SWIR"} |->
             IF x = "SWIR" THEN m["SWIR1"] ELSE m[x]]
    ELSE m

\* The final rename of a key "SWIR" to "SWIR1".
RenameSwir(m) ==
    IF "SWIR" \in DOMAIN m /\ "SWIR1" \notin DOMAIN m
    THEN [x \in (DOMAIN m \ {"SWIR"}) \cup {"SWIR1"} |->
             IF x = "SWIR1" THEN m["SWIR"] ELSE m[x]]
    ELSE m

\* A guess that returns every band type, the unresolved ones with -1.
guess_band_types_AllKeys(names) ==
    LET m == IF Len(names) = 0 THEN EmptyDict
             ELSE RenameSwir(PositionalFallback(ScanTypes(names, Len(patterns)),
                                                Len(names)))
    IN  [R \in Roles |-> IF R \in DOMAIN m THEN m[R] ELSE -1]

guess_band_types(names) ==
    IF Len(names) = 0 THEN EmptyDict
    ELSE RenameSwir(PositionalFallback(ScanTypes(names, Len(patterns)),
                                       Len(names)))

---------------------------------------------------------------------------
(* The calls.  Each specification below hands one function of indices.py  *)
(* its arguments (Init) and runs it to its end in one step.               *)

\* All sequences over S of length 0..n.
SeqsUpTo(S, n) == UNION {[1..k -> S] : k \in 0..n}

\* All dicts with keys among K and values in V.
DictsOver(K, V) == UNION {[D -> V] : D \in SUBSET K}

InitGuess ==
    /\ COMMON_INDICES = CatalogSource
    /\ band_names \in SeqsUpTo(BandNameVocab, MaxBands)
    /\ bands = PyList(<<>>)
    /\ band_mapping = PyNone
    /\ index_name = ""
    /\ pc = "call"
    /\ ret = NotCalled
    /\ indices_panel = NoPanel
    /\ plot_panel = NoPanel
    /\ control_panel = NoPanel
    /\ messagebox = NoMessage
    /\ recorded = <<>>

GuessBandTypes ==
    /\ pc = "call"
    /\ ret' = Returned(PyDict(guess_band_types(band_names)))
    /\ pc' = "done"
    /\ UNCHANGED <<COMMON_INDICES, band_names, bands, band_mapping, index_name,
                   indices_panel, plot_panel, control_panel, messagebox>>

NextGuess == GuessBandTypes /\ UNCHANGED recorded

SpecGuess == InitGuess /\ [][NextGuess]_vars

\* Band names around the short-wave infrared roles: the bare word swir in
\* two spellings, swir followed by 2 with and without a separator, swir
\* followed by 1, Sentinel-2 codes of the two SWIR bands, and a name no
\* pattern matches.
SwirNameVocab ==
    { <<"S", "W", "I", "R">>,
      <<"s", "w", "i", "r", " ", "b", "a", "n", "d">>,
      <<"S", "W", "I", "R", "2">>,
      <<"S", "W", "I", "R", " ", "2">>,
      <<"S", "W", "I", "R", "1">>,
      <<"B", "1", "1">>,
      <<"B", "1", "2">>,
      <<"x", "1">> }

\* The longest band list of the SWIR names.
MaxSwirBands == 3

InitSwir ==
    /\ COMMON_INDICES = CatalogSource
    /\ band_names \in SeqsUpTo(SwirNameVocab, MaxSwirBands)
    /\ bands = PyList(<<>>)
    /\ band_mapping = PyNone
    /\ index_name = ""
    /\ pc = "call"
    /\ ret = NotCalled
    /\ indices_panel = NoPanel
    /\ plot_panel = NoPanel
    /\ control_panel = NoPanel
    /\ messagebox = NoMessage
    /\ recorded = <<>>

SpecSwir == InitSwir /\ [][NextGuess]_vars

InitAvail ==
    /\ COMMON_INDICES = CatalogSource
    /\ band_names = <<>>
    /\ bands = PyList(<<>>)
    /\ band_mapping \in {PyNone} \cup {PyDict(f) : f \in DictsOver(Roles, 0..MaxPos)}
    /\ index_name = ""
    /\ pc = "call"
    /\ ret = NotCalled
    /\ indices_panel = NoPanel
    /\ plot_panel = NoPanel
    /\ control_panel = NoPanel
    /\ messagebox = NoMessage
    /\ recorded = <<>>

\* A get_available_indices that works on the catalog's own band lists and
\* strikes the mapped band types off them.
GetAvailableIndices_StrikesBands ==
    /\ pc = "call"
    /\ ret' = Returned(PyList(get_available_indices(COMMON_INDICES, band_mapping)))
    /\ pc' = "done"
    /\ COMMON_INDICES' =
          [i \in 1..Len(COMMON_INDICES) |->
              [COMMON_INDICES[i] EXCEPT !.bands =
                  SelectSeq(@, LAMBDA b : ~(/\ band_mapping.type = "dict"
                                            /\ b \in DOMAIN band_mapping.items))]]
    /\ UNCHANGED <<band_names, bands, band_mapping, index_name, indices_panel,
                   plot_panel, control_panel, messagebox>>

GetAvailableIndices ==
    /\ pc = "call"
    /\ ret' = Returned(PyList(get_available_indices(COMMON_INDICES, band_mapping)))
    /\ pc' = "done"
    /\ UNCHANGED <<COMMON_INDICES, band_names, bands, band_mapping, index_name,
                   indices_panel, plot_panel, control_panel, messagebox>>

NextAvail == GetAvailableIndices /\ UNCHANGED recorded

SpecAvail == InitAvail /\ [][NextAvail]_vars

---------------------------------------------------------------------------
(* calculate_index *)

\* str(i)
str(i) == ToString(i)

\* Elementwise arithmetic of float32 arrays of one shape, and of an array
\* with a Python scalar.
ArrAdd(a, b) == [i \in 1..Len(a) |-> FAdd(a[i], b[i])]

\* A subtraction with its operands exchanged.
ArrSub_Swapped(a, b) == [i \in 1..Len(a) |-> FSub(b[i], a[i])]

ArrSub(a, b) == [i \in 1..Len(a) |-> FSub(a[i], b[i])]

ArrAddScalar(a, c) == [i \in 1..Len(a) |-> FAdd(a[i], c)]

ArrMulScalar(a, c) == [i \in 1..Len(a) |-> FMul(a[i], c)]

\* np.divide(num, den, out=np.full_like(num, np.nan), where=den != 0):
\* a cell of the NaN-filled output is written only where den is not zero.
\* The masked division that divides everywhere.
MaskedDivide_NoMask(num, den) == [i \in 1..Len(num) |-> FDiv(num[i], den[i])]

MaskedDivide(num, den) ==
    [i \in 1..Len(num) |->
        IF FNonZero(den[i]) THEN FDiv(num[i], den[i]) ELSE NaN]

\* isinstance(bands, list) and all(isinstance(b, np.ndarray) for b in bands)
IsListOfArrays(b) ==
    b.type = "list" /\ \A i \in 1..Len(b.items) : b.items[i].type = "ndarray"

\* A missing-band list that is the whole list of required bands.
missing_bands_AllRequired(required_bands, m) ==
    IF \E i \in 1..Len(required_bands) : required_bands[i] \notin DOMAIN m
    THEN required_bands
    ELSE <<>>

\* [b for b in required_bands if b not in band_mapping]
missing_bands(required_bands, m) ==
    SelectSeq(required_bands, LAMBDA b : b \notin DOMAIN m)

\* A lower-bound-free range check: a negative index passes.
OutOfRange_NoLowerBound(band_idx, num_bands_available) ==
    band_idx >= num_bands_available

\* not (0 <= band_idx < num_bands_available)
OutOfRange(band_idx, num_bands_available) ==
    ~(0 <= band_idx /\ band_idx < num_bands_available)

\* bands[band_idx] raises no IndexError: Python counts a negative index
\* from the end of the list.
ValidListIndex(items, band_idx) ==
    -Len(items) <= band_idx /\ band_idx < Len(items)

\* bands[band_idx]
GetItem(items, band_idx) ==
    IF band_idx < 0 THEN items[Len(items) + band_idx + 1]
    ELSE items[band_idx + 1]

\* A loop that refuses a position an earlier required band type has taken.
RECURSIVE BuildBandTable_Injective(_, _, _, _, _, _)
BuildBandTable_Injective(required_bands, m, items, name, i, B) ==
    IF i > Len(required_bands) THEN [B |-> B]
    ELSE LET band_type == required_bands[i]
         IN  IF band_type \notin DOMAIN m
             THEN [error |-> Raised("ValueError",
                      <<"Band type '", "'", band_type, "'", "' required for ",
                        name, " not found in mapping keys.">>)]
             ELSE IF \/ OutOfRange(m[band_type], Len(items))
                     \/ \E h \in 1..(i - 1) : m[required_bands[h]] = m[band_type]
             THEN [error |-> Raised("ValueError",
                      <<"Mapped index ", str(m[band_type]), " for '",
                        band_type, "' is out of range (0-",
                        str(Len(items) - 1), ").">>)]
             ELSE BuildBandTable_Injective(required_bands, m, items, name, i + 1,
                                           Put(B, band_type,
                                               GetItem(items, m[band_type]).data))

\* The loop that builds B (band type -> cells of its band) inside the try
\* block, from the i-th required band type on: the finished table, or the
\* error raised at the first band type that fails.
RECURSIVE BuildBandTable(_, _, _, _, _, _)
BuildBandTable(required_bands, m, items, name, i, B) ==
    IF i > Len(required_bands) THEN [B |-> B]
    ELSE LET band_type == required_bands[i]
         IN  IF band_type \notin DOMAIN m
             THEN \* except KeyError (str of a KeyError quotes the key)
                  [error |-> Raised("ValueError",
                      <<"Band type '", "'", band_type, "'", "' required for ",
                        name, " not found in mapping keys.">>)]
             ELSE IF OutOfRange(m[band_type], Len(items))
             THEN [error |-> Raised("ValueError",
                      <<"Mapped index ", str(m[band_type]), " for '",
                        band_type, "' is out of range (0-",
                        str(Len(items) - 1), ").">>)]
             ELSE IF ~ValidListIndex(items, m[band_type])
             THEN \* except IndexError
                  [error |-> Raised("ValueError",
                      <<"Invalid band index found in mapping for ", name,
                        ". Ensure mapping matches loaded bands.">>)]
             ELSE BuildBandTable(required_bands, m, items, name, i + 1,
                                 Put(B, band_type,
                                     GetItem(items, m[band_type]).data))

\* The if/elif chain of the formulas: the numerator and denominator arrays,
\* or the error a branch raises.
Formula(name, B, params) ==
    CASE name = "NDVI" ->
            [num |-> ArrSub(B["NIR"], B["Red"]),
             den |-> ArrAdd(B["NIR"], B["Red"])]
      [] name = "NDWI" ->
            [num |-> ArrSub(B["Green"], B["NIR"]),
             den |-> ArrAdd(B["Green"], B["NIR"])]
      [] name = "MNDWI" ->
            [num |-> ArrSub(B["Green"], B["SWIR1"]),
             den |-> ArrAdd(B["Green"], B["SWIR1"])]
      [] name = "NDBI" ->
            [num |-> ArrSub(B["SWIR1"], B["NIR"]),
             den |-> ArrAdd(B["SWIR1"], B["NIR"])]
      [] name = "SAVI" ->
            LET L == DictGet(params, "L", Rat(5, 10))
            IN  [num |-> ArrMulScalar(ArrSub(B["NIR"], B["Red"]),
                                      FAdd(Num(1), L)),
                 den |-> ArrAddScalar(ArrAdd(B["NIR"], B["Red"]), L)]
      [] name = "EVI" ->
            LET G == DictGet(params, "G", Rat(25, 10))
                C1 == DictGet(params, "C1", Rat(60, 10))
                C2 == DictGet(params, "C2", Rat(75, 10))
                L == DictGet(params, "L", Rat(10, 10))
            IN  [num |-> ArrMulScalar(ArrSub(B["NIR"], B["Red"]), G),
                 den |-> ArrAddScalar(
                             ArrSub(ArrAdd(B["NIR"], ArrMulScalar(B["Red"], C1)),
                                    ArrMulScalar(B["Blue"], C2)),
                             L)]
      [] name = "NDSI" ->
            [num |-> ArrSub(B["Green"], B["SWIR1"]),
             den |-> ArrAdd(B["Green"], B["SWIR1"])]
      [] name = "NDMI" ->
            [num |-> ArrSub(B["NIR"], B["SWIR1"]),
             den |-> ArrAdd(B["NIR"], B["SWIR1"])]
      [] name = "BSI" ->
            [num |-> ArrSub(ArrAdd(B["SWIR1"], B["Red"]),
                            ArrAdd(B["NIR"], B["Blue"])),
             den |-> ArrAdd(ArrAdd(B["SWIR1"], B["Red"]),
                            ArrAdd(B["NIR"], B["Blue"]))]
      [] name = "NBR" ->
            IF "SWIR2" \notin DOMAIN B
            THEN [error |-> Raised("ValueError",
                     <<"NBR calculation requires 'SWIR2' band mapping.">>)]
            ELSE [num |-> ArrSub(B["NIR"], B["SWIR2"]),
                  den |-> ArrAdd(B["NIR"], B["SWIR2"])]
      [] OTHER ->
            [error |-> Raised("ValueError",
                <<"Index calculation logic not implemented for: ", name>>)]

\* The index names the if/elif chain has a branch for; the names are
\* distinct literals, so a name has one branch at most.
BranchNames ==
    {"NDVI", "NDWI", "MNDWI", "NDBI", "SAVI", "EVI", "NDSI", "NDMI", "BSI",
     "NBR"}

\* The band types the branch of name subscripts B with.
RolesRead(name) ==
    CASE name = "NDVI" -> {"NIR", "Red"}
      [] name = "NDWI" -> {"Green", "NIR"}
      [] name = "MNDWI" -> {"Green", "SWIR1"}
      [] name = "NDBI" -> {"SWIR1", "NIR"}
      [] name = "SAVI" -> {"NIR", "Red"}
      [] name = "EVI" -> {"NIR", "Red", "Blue"}
      [] name = "NDSI" -> {"Green", "SWIR1"}
      [] name = "NDMI" -> {"NIR", "SWIR1"}
      [] name = "BSI" -> {"SWIR1", "Red", "NIR", "Blue"}
      [] name = "NBR" -> {"NIR", "SWIR2"}
      [] OTHER -> {}

\* The part of calculate_index after the checks of the arguments' types:
\* the missing-band check, the table of bands, the formula and the division.
CalculateChecked(index_info, items, m, name) ==
    LET required_bands == index_info.bands
        params == ParamsOf(index_info)
        missing == missing_bands(required_bands, m)
    IN  IF missing # <<>>
        THEN Raised("ValueError",
                 <<"Missing required band mapping(s) for ", name, ": ">>
                 \o Join(missing))
        ELSE LET t == BuildBandTable(required_bands, m, items, name, 1, EmptyDict)
             IN  IF "error" \in DOMAIN t THEN t.error
                 ELSE LET f == Formula(name, t.B, params)
                      IN  IF "error" \in DOMAIN f THEN f.error
                          ELSE Returned(
                                   [index |-> NdArray(MaskedDivide(f.num, f.den)),
                                    description |-> index_info.description,
                                    colormap |-> index_info.colormap,
                                    range |-> index_info.range])

\* A calculate_index that checks the types of its arguments before it
\* looks the index name up.
calculate_index_TypesFirst(cat, b, m, name) ==
    IF ~IsListOfArrays(b)
    THEN Raised("TypeError", <<"Input 'bands' must be a list of NumPy arrays.">>)
    ELSE IF m.type # "dict"
    THEN Raised("TypeError", <<"Input 'band_mapping' must be a dictionary.">>)
    ELSE IF ~InCatalog(cat, name)
    THEN Raised("ValueError", <<"Unknown index: '", name, "'">>)
    ELSE CalculateChecked(Lookup(cat, name), b.items, m.items, name)

\* A calculate_index that reports malformed arguments as ValueError too.
calculate_index_MalformedAsValueError(cat, b, m, name) ==
    IF ~InCatalog(cat, name)
    THEN Raised("ValueError", <<"Unknown index: '", name, "'">>)
    ELSE IF ~IsListOfArrays(b)
    THEN Raised("ValueError", <<"Input 'bands' must be a list of NumPy arrays.">>)
    ELSE IF m.type # "dict"
    THEN Raised("ValueError", <<"Input 'band_mapping' must be a dictionary.">>)
    ELSE CalculateChecked(Lookup(cat, name), b.items, m.items, name)

calculate_index(cat, b, m, name) ==
    IF ~InCatalog(cat, name)
    THEN Raised("ValueError", <<"Unknown index: '", name, "'">>)
    ELSE IF ~IsListOfArrays(b)
    THEN Raised("TypeError", <<"Input 'bands' must be a list of NumPy arrays.">>)
    ELSE IF m.type # "dict"
    THEN Raised("TypeError", <<"Input 'band_mapping' must be a dictionary.">>)
    ELSE CalculateChecked(Lookup(cat, name), b.items, m.items, name)

\* A calculate_index that takes its entry out of the catalog
\* (COMMON_INDICES.pop(index_name)) instead of reading it.
CalculateIndex_PopsEntry ==
    /\ pc = "call"
    /\ ret' = calculate_index(COMMON_INDICES, bands, band_mapping, index_name)
    /\ pc' = "done"
    /\ COMMON_INDICES' =
          SelectSeq(COMMON_INDICES, LAMBDA e : e.key # index_name)
    /\ UNCHANGED <<band_names, bands, band_mapping, index_name, indices_panel,
                   plot_panel, control_panel, messagebox>>

\* A calculate_index that computes in place: astype(copy=False) hands out
\* the caller's arrays, and the result is written into the first of them.
CalculateIndex_InPlace ==
    /\ pc = "call"
    /\ ret' = calculate_index(COMMON_INDICES, bands, band_mapping, index_name)
    /\ pc' = "done"
    /\ bands' = IF ret'.kind = "return"
                THEN PyList([bands.items EXCEPT ![1] = ret'.value.index])
                ELSE bands
    /\ UNCHANGED <<COMMON_INDICES, band_names, band_mapping, index_name,
                   indices_panel, plot_panel, control_panel, messagebox>>

CalculateIndex ==
    /\ pc = "call"
    /\ ret' = calculate_index(COMMON_INDICES, bands, band_mapping, index_name)
    /\ pc' = "done"
    /\ UNCHANGED <<COMMON_INDICES, band_names, bands, band_mapping, index_name,
                   indices_panel, plot_panel, control_panel, messagebox>>

NextCalc == CalculateIndex /\ UNCHANGED recorded

\* An index name that is not in the catalog.
UnknownName == "FOO"

\* Arguments for the checks of calculate_index: any catalog name or an
\* unknown one; a mapping that is None or a dict on any subset of the roles
\* with the positions -1, 0 and MaxPos; a list of one-cell arrays (band i
\* holds the value i) with 0 bands (every position is out of range),
\* MaxPos bands (MaxPos is out of range) or MaxPos + 1 bands (only -1 is),
\* something that is not a list, or a list that holds something other than
\* an array.
CheckPositions == {-1, 0, MaxPos}

CheckBandLists ==
    {PyList([i \in 1..k |-> NdArray(<<Num(i)>>)]) : k \in {0, MaxPos, MaxPos + 1}}
    \cup {PyStr, PyList(<<PyStr>>)}

InitCalc ==
    /\ COMMON_INDICES = CatalogSource
    /\ band_names = <<>>
    /\ bands \in CheckBandLists
    /\ band_mapping \in {PyNone} \cup {PyDict(f) : f \in DictsOver(Roles, CheckPositions)}
    /\ index_name \in Range(Keys(CatalogSource)) \cup {UnknownName}
    /\ pc = "call"
    /\ ret = NotCalled
    /\ indices_panel = NoPanel
    /\ plot_panel = NoPanel
    /\ control_panel = NoPanel
    /\ messagebox = NoMessage
    /\ recorded = <<>>

SpecCalc == InitCalc /\ [][NextCalc]_vars

\* Cell values of the arithmetic checks: not-a-number, an infinity, zero,
\* values whose sums are zero (also with the parameters of SAVI and EVI
\* added), and the cells of the known-value example (3 and 1).
PixelValues == {NaN, PosInf, Num(0), Num(1), Num(3), Num(-1), Rat(-1, 2)}

\* Band positions of the arithmetic checks: two bands.
EvalPositions == {0, 1}

\* Arguments for the arithmetic of calculate_index: a catalog name, two
\* arrays of NumPixels cells each, and a mapping of the roles the index
\* requires to the two bands (structurally valid input).
InitEval ==
    /\ COMMON_INDICES = CatalogSource
    /\ band_names = <<>>
    /\ bands \in {PyList([i \in 1..Cardinality(EvalPositions) |-> NdArray(a[i])]) :
                     a \in [1..Cardinality(EvalPositions) -> [1..NumPixels -> PixelValues]]}
    /\ index_name \in Range(Keys(CatalogSource))
    /\ band_mapping \in
          {PyDict(f) : f \in [Range(Lookup(CatalogSource, index_name).bands)
                                -> EvalPositions]}
    /\ pc = "call"
    /\ ret = NotCalled
    /\ indices_panel = NoPanel
    /\ plot_panel = NoPanel
    /\ control_panel = NoPanel
    /\ messagebox = NoMessage
    /\ recorded = <<>>

SpecEval == InitEval /\ [][NextCalc]_vars

---------------------------------------------------------------------------
(* A session: a client of indices.py that calls the three functions one   *)
(* after the other, any number of times, each time with arguments of its   *)
(* choice.  "recorded" keeps one call of calculate_index the client picked *)
(* and the next call of calculate_index with the same arguments.           *)

\* Band-name lists of the session: none, and two matched names.
SessionBandNames == {<<>>, << <<"B", "0", "8">>, <<"R", "e", "d">> >>}

\* Band lists of the session: two lists of two one-cell arrays, and a value
\* that is not a list.
SessionBandLists ==
    {PyList(<<NdArray(<<Num(3)>>), NdArray(<<Num(1)>>)>>),
     PyList(<<NdArray(<<Num(1)>>), NdArray(<<Num(-1)>>)>>),
     PyStr}

\* Role mappings of the session: complete for NDVI and SAVI, with a role
\* missing, with a position out of range, and None.
SessionMappings ==
    {PyDict([r \in {"NIR", "Red"} |-> IF r = "NIR" THEN 0 ELSE 1]),
     PyDict([r \in {"NIR"} |-> 0]),
     PyDict([r \in {"NIR", "Red"} |-> IF r = "NIR" THEN 0 ELSE 2]),
     PyNone}

SessionIndexNames == {"NDVI", "SAVI", UnknownName}

InitSession ==
    /\ COMMON_INDICES = CatalogSource
    /\ band_names \in SessionBandNames
    /\ bands \in SessionBandLists
    /\ band_mapping \in SessionMappings
    /\ index_name \in SessionIndexNames
    /\ pc = "call"
    /\ ret = NotCalled
    /\ indices_panel = NoPanel
    /\ plot_panel = NoPanel
    /\ control_panel = NoPanel
    /\ messagebox = NoMessage
    /\ recorded = <<>>

\* The client has its result and prepares the next call.
NewCall ==
    /\ pc = "done"
    /\ band_names' \in SessionBandNames
    /\ bands' \in SessionBandLists
    /\ band_mapping' \in SessionMappings
    /\ index_name' \in SessionIndexNames
    /\ pc' = "call"
    /\ ret' = NotCalled
    /\ UNCHANGED <<COMMON_INDICES, indices_panel, plot_panel, control_panel,
                   messagebox, recorded>>

\* The history of a call of calculate_index: the first recorded call is
\* any call, the second the next call with the arguments of the first.
Remember ==
    LET call == [bands |-> bands, band_mapping |-> band_mapping,
                 index_name |-> index_name, ret |-> ret']
    IN  IF recorded = <<>>
        THEN recorded' \in {<<>>, <<call>>}
        ELSE IF /\ Len(recorded) = 1
                /\ recorded[1].bands = bands
                /\ recorded[1].band_mapping = band_mapping
                /\ recorded[1].index_name = index_name
        THEN recorded' = Append(recorded, call)
        ELSE UNCHANGED recorded

SessionGuess == GuessBandTypes /\ UNCHANGED recorded

SessionAvail == GetAvailableIndices /\ UNCHANGED recorded

SessionCalc == CalculateIndex /\ Remember

NextSession == SessionGuess \/ SessionAvail \/ SessionCalc \/ NewCall

SpecSession == InitSession /\ [][NextSession]_vars

---------------------------------------------------------------------------
(* The indices panel (src/src/gui/indices_panel.py).  indices_panel holds  *)
(* the fields of the IndicesPanel object the handlers read and write:      *)
(* imagery_data, band_mapping (the session role mapping), band_vars (the   *)
(* text of the six comboboxes), available_indices (the index buttons) and  *)
(* the state of the export button.  The name labels, which only display,   *)
(* are left out.  Each handler is one step of the event loop.              *)

\* src.meta of a raster file with these bands, and the file_path entry the
\* loader adds: the dict under the key 'metadata'.  An array of the model
\* is one row of cells.
Metadata(driver, dtype, nodata, arrays) ==
    [key \in {"driver", "dtype", "nodata", "width", "height", "count", "crs",
              "transform", "file_path"} |->
        CASE key = "driver" -> driver
          [] key = "dtype" -> dtype
          [] key = "nodata" -> nodata
          [] key = "width" -> IF Len(arrays) = 0 THEN 0 ELSE Len(arrays[1].data)
          [] key = "height" -> IF Len(arrays) = 0 THEN 0 ELSE 1
          [] key = "count" -> Len(arrays)
          [] key = "crs" -> "EPSG:32633"
          [] key = "transform" -> "Affine(10, 0, 0, 0, -10, 0)"
          [] key = "file_path" -> "scene.tif"]

\* The imagery dict of load_satellite_imagery: one name per band.
Imagery(names, arrays) ==
    [type |-> "dict", band_names |-> names, bands |-> arrays,
     metadata |-> Metadata("GTiff", "uint16", PyNone, arrays),
     file_path |-> "scene.tif"]

\* bool(imagery_data): None is falsy, the imagery dict is not.
TruthyImagery(d) == d.type = "dict"

\* imagery_data and imagery_data.get('bands')
HasBands(d) == TruthyImagery(d) /\ Len(d.bands) > 0

DecimalDigits == <<"0", "1", "2", "3", "4", "5", "6", "7", "8", "9">>

\* f"{n}" for n >= 0, as characters
RECURSIVE FormatInt(_)
FormatInt(n) ==
    IF n < 10 THEN <<DecimalDigits[n + 1]>>
    ELSE FormatInt(n \div 10) \o <<DecimalDigits[(n % 10) + 1]>>

\* f"{idx+1}: {band_names[idx]}"
ComboValue(idx, names) == FormatInt(idx + 1) \o <<":", " ">> \o names[idx + 1]

\* [""] + [f"{i+1}: {name}" for i, name in enumerate(band_names)]
combo_values(names) ==
    {<<>>} \cup {ComboValue(i, names) : i \in 0..(Len(names) - 1)}

\* selected_value.split(":")[0], for a value that holds a ":"
SplitFirst(value) ==
    LET k == Min({i \in 1..Len(value) : value[i] = ":"})
    IN  SubSeq(value, 1, k - 1)

\* The value of a string of decimal digits.
RECURSIVE DecimalValue(_)
DecimalValue(chars) ==
    IF Len(chars) = 0 THEN 0
    ELSE 10 * DecimalValue(SubSeq(chars, 1, Len(chars) - 1))
         + (CHOOSE d \in 0..9 : DecimalDigits[d + 1] = chars[Len(chars)])

\* int(text): the number, or ValueError for a text that is not decimal
\* digits (signs, blanks and underscores do not occur in a combobox value).
ParseInt(chars) ==
    IF Len(chars) > 0 /\ \A i \in 1..Len(chars) : chars[i] \in Digits
    THEN [ok |-> TRUE, v |-> DecimalValue(chars)]
    ELSE [ok |-> FALSE]

\* A reading of the combobox text that keeps the 1-based number.
SelectedIndex_OneBased(value, num_bands) ==
    IF Len(value) > 0 /\ ":" \in Range(value)
    THEN LET n == ParseInt(SplitFirst(value))
         IN  IF n.ok /\ 1 <= n.v /\ n.v <= num_bands
             THEN [ok |-> TRUE, v |-> n.v]
             ELSE [ok |-> FALSE]
    ELSE [ok |-> FALSE]

\* The 0-based band index a combobox text selects among num_bands bands:
\* [ok |-> TRUE, v |-> index], or [ok |-> FALSE] for the empty text, a text
\* without ":", a ValueError of int() and an index out of range.
SelectedIndex(value, num_bands) ==
    IF Len(value) > 0 /\ ":" \in Range(value)
    THEN LET n == ParseInt(SplitFirst(value))
         IN  IF n.ok /\ 0 <= n.v - 1 /\ n.v - 1 < num_bands
             THEN [ok |-> TRUE, v |-> n.v - 1]
             ELSE [ok |-> FALSE]
    ELSE [ok |-> FALSE]

\* _update_all_band_mappings: the mapping read from the comboboxes.
update_all_band_mappings(p) ==
    IF ~TruthyImagery(p.imagery_data) THEN p.band_mapping
    ELSE LET num_bands == Len(p.imagery_data.bands)
             chosen == {bt \in DOMAIN p.band_vars :
                           SelectedIndex(p.band_vars[bt], num_bands).ok}
         IN  [bt \in chosen |-> SelectedIndex(p.band_vars[bt], num_bands).v]

\* _update_indices_list: the mapping is read again, then the index buttons
\* are rebuilt from get_available_indices.
update_indices_list(cat, p) ==
    LET m == update_all_band_mappings(p)
    IN  [p EXCEPT !.band_mapping = m,
                  !.available_indices = get_available_indices(cat, PyDict(m))]

\* The combobox text update_with_imagery starts a band type with: the
\* guessed band if its position is a position of the image.
initial_value(guessed_mapping, band_type, names) ==
    IF /\ band_type \in DOMAIN guessed_mapping
       /\ 0 <= guessed_mapping[band_type]
       /\ guessed_mapping[band_type] < Len(names)
    THEN ComboValue(guessed_mapping[band_type], names)
    ELSE <<>>

\* IndicesPanel.__init__ and _create_widgets
NewPanel ==
    [constructed |-> TRUE,
     imagery_data |-> PyNone,
     band_mapping |-> EmptyDict,
     available_indices |-> <<>>,
     band_vars |-> EmptyDict,
     export_button |-> "disabled"]

\* messagebox.showinfo / showwarning / showerror(title, message)
ShowMessage(kind, title, message) ==
    [kind |-> kind, title |-> title, message |-> message]

\* PlotPanel.__init__, which ends in _show_welcome()
NewPlotPanel ==
    [constructed |-> TRUE,
     imagery_data |-> PyNone,
     current_plot_options |-> EmptyDict,
     current_index_array |-> PyNone,
     current_index_name |-> PyNone]

\* PlotPanel._show_welcome
show_welcome(pp) ==
    [pp EXCEPT !.current_plot_options = EmptyDict,
               !.current_index_array = PyNone,
               !.current_index_name = PyNone]

\* The options of a plot of bands, of an RGB composite and of an index; of
\* the display settings only plot_type and what it selects are kept.
BandsOptions(band_indices) ==
    [plot_type |-> "bands", band_indices |-> band_indices]

RgbOptions(r_idx, g_idx, b_idx) ==
    [plot_type |-> "rgb", r_idx |-> r_idx, g_idx |-> g_idx, b_idx |-> b_idx]

\* A str value, where the code holds a str or None.
Str(chars) == [type |-> "str", value |-> chars]

IndexOptions(index_array, name) ==
    [plot_type |-> "index", index_array |-> index_array,
     index_name |-> Str(name)]

\* PlotPanel.update_plot(imagery_data, options).  The drawing functions of
\* visualization.py are taken not to raise; what they draw is not kept.
update_plot(pp, imagery_data, options) ==
    IF ~HasBands(imagery_data) THEN show_welcome(pp)
    ELSE [pp EXCEPT
             !.imagery_data = imagery_data,
             !.current_plot_options = options,
             !.current_index_array =
                 IF options.plot_type = "index" THEN options.index_array
                 ELSE PyNone,
             !.current_index_name =
                 IF options.plot_type = "index" THEN options.index_name
                 ELSE PyNone]

\* update_with_imagery that leaves a combobox on the text it showed before
\* whenever that text still selects a band of the new imagery.
update_with_imagery_KeepsTexts(cat, p, imagery_data) ==
    LET p0 == [p EXCEPT !.imagery_data = imagery_data,
                        !.export_button = "disabled"]
    IN  IF ~HasBands(imagery_data)
        THEN [p0 EXCEPT !.band_mapping = EmptyDict,
                        !.available_indices = <<>>,
                        !.band_vars = EmptyDict]
        ELSE LET names == imagery_data.band_names
                 guessed_mapping == guess_band_types(names)
                 p1 == [p0 EXCEPT !.band_vars =
                           [bt \in Roles |->
                               IF /\ bt \in DOMAIN p.band_vars
                                  /\ SelectedIndex(p.band_vars[bt],
                                                   Len(names)).ok
                               THEN p.band_vars[bt]
                               ELSE initial_value(guessed_mapping, bt, names)]]
                 p2 == [p1 EXCEPT !.band_mapping =
                           update_all_band_mappings(p1)]
             IN  update_indices_list(cat, p2)

\* update_with_imagery(imagery_data): the panel after the call.
update_with_imagery(cat, p, imagery_data) ==
    LET p0 == [p EXCEPT !.imagery_data = imagery_data,
                        !.export_button = "disabled"]
    IN  IF ~HasBands(imagery_data)
        THEN [p0 EXCEPT !.band_mapping = EmptyDict,
                        !.available_indices = <<>>,
                        !.band_vars = EmptyDict]
        ELSE LET names == imagery_data.band_names
                 guessed_mapping == guess_band_types(names)
                 p1 == [p0 EXCEPT !.band_vars =
                           [bt \in Roles |->
                               initial_value(guessed_mapping, bt, names)]]
                 p2 == [p1 EXCEPT !.band_mapping =
                           update_all_band_mappings(p1)]
             IN  update_indices_list(cat, p2)

\* The user picks selected_value in the combobox of band_type, which runs
\* _update_single_band_mapping(band_type).
SelectBand(band_type, selected_value) ==
    /\ pc = "gui"
    /\ band_type \in DOMAIN indices_panel.band_vars
    /\ LET sel == SelectedIndex(selected_value,
                                Len(indices_panel.imagery_data.bands))
           m == indices_panel.band_mapping
       IN  indices_panel' =
               [indices_panel EXCEPT
                   !.band_vars = Put(indices_panel.band_vars, band_type,
                                     selected_value),
                   !.band_mapping =
                       IF sel.ok THEN Put(m, band_type, sel.v)
                       ELSE [bt \in DOMAIN m \ {band_type} |-> m[bt]]]
    /\ messagebox' = NoMessage
    /\ UNCHANGED <<COMMON_INDICES, band_names, bands, band_mapping, index_name,
                   pc, ret, plot_panel, control_panel>>

\* The button "Update Available Indices", which update_with_imagery creates
\* with the comboboxes.
UpdateIndicesList ==
    /\ pc = "gui"
    /\ DOMAIN indices_panel.band_vars # {}
    /\ indices_panel' = update_indices_list(COMMON_INDICES, indices_panel)
    /\ messagebox' = NoMessage
    /\ UNCHANGED <<COMMON_INDICES, band_names, bands, band_mapping, index_name,
                   pc, ret, plot_panel, control_panel>>

\* The export button enabled whether or not the calculation succeeded.
export_button_after_Always(r) == "normal"

\* The state of the export button after _calculate_index, whose call of
\* calculate_index ended as r: disabled at the start, enabled at the end of
\* the try block.
export_button_after(r) ==
    IF r.kind = "return" THEN "normal" ELSE "disabled"

\* The button of an index of the list: _calculate_index(index_name).
PanelCalculateIndex(name) ==
    /\ pc = "gui"
    /\ name \in Range(indices_panel.available_indices)
    /\ IF ~TruthyImagery(indices_panel.imagery_data)
       THEN /\ messagebox' = ShowMessage("showwarning", "Warning",
                   <<"Load imagery and ensure mapping is correct.">>)
            /\ UNCHANGED <<indices_panel, plot_panel>>
       ELSE LET m == update_all_band_mappings(indices_panel)
                r == calculate_index(COMMON_INDICES,
                                     PyList(indices_panel.imagery_data.bands),
                                     PyDict(m), name)
            IN  /\ indices_panel' =
                      [indices_panel EXCEPT
                          !.band_mapping = m,
                          !.export_button = export_button_after(r)]
                /\ plot_panel' =
                      IF r.kind = "return"
                      THEN update_plot(plot_panel, indices_panel.imagery_data,
                                       IndexOptions(r.value.index, name))
                      ELSE plot_panel
                /\ messagebox' =
                      IF r.kind = "return" THEN NoMessage
                      ELSE IF r.exc = "ValueError"
                      THEN ShowMessage("showerror", "Calculation Error",
                               <<"Failed to calculate ", name, ":\n">>
                               \o r.msg
                               \o <<"\n\nPlease check band mapping.">>)
                      ELSE ShowMessage("showerror", "Calculation Error",
                               <<"An unexpected error occurred calculating ",
                                 name, ":\n">> \o r.msg)
    /\ UNCHANGED <<COMMON_INDICES, band_names, bands, band_mapping, index_name,
                   pc, ret, control_panel>>

\* The content of a mapping file; where a message box cites file_path, the
\* model cites the content of the file.  A JSON text is the value it denotes: an
\* object (items: member name -> value), a number (n its value; frac: it
\* is written with a fraction or an exponent, as 1.0), true, false, null, a
\* string or an array.  A file can also be missing, or hold no JSON.
JObject(f) == [type |-> "file", json |-> "object", items |-> f]

JArray == [type |-> "file", json |-> "array"]

JNumber(n, frac) == [json |-> "number", n |-> n, frac |-> frac]

JBool(b) == [json |-> "bool", b |-> b]

JString == [json |-> "string"]

JNull == [json |-> "null"]

MissingFile == [type |-> "file", json |-> "missing"]

NotJson == [type |-> "file", json |-> "invalid"]

\* Python values of the members of a loaded object.
PyInt(n) == [type |-> "int", v |-> n]

PyBool(b) == [type |-> "bool", v |-> b]

PyFloat(n) == [type |-> "float", v |-> n]

\* json.load, one member: a number without fraction is an int, one with a
\* fraction a float, true and false are the bools, null is None.
json_load_value(j) ==
    IF j.json = "number" THEN (IF j.frac THEN PyFloat(j.n) ELSE PyInt(j.n))
    ELSE IF j.json = "bool" THEN PyBool(j.b)
    ELSE IF j.json = "null" THEN PyNone
    ELSE PyStr

\* json.load of an object: the dict of its members.
json_load(file) == [k \in DOMAIN file.items |-> json_load_value(file.items[k])]

\* json.dump(self.band_mapping, f): the members are the ints of the mapping.
json_dump(m) == JObject([k \in DOMAIN m |-> JNumber(m[k], FALSE)])

\* isinstance(idx, int): bool is a subclass of int.
IsInstanceInt(idx) == idx.type \in {"int", "bool"}

\* The number an int or a bool is in a comparison, a sum or a subscript:
\* True is 1 and False is 0.
IntValue(idx) ==
    IF idx.type = "bool" THEN (IF idx.v THEN 1 ELSE 0) ELSE idx.v

\* isinstance(idx, int) and 0 <= idx < num_bands
ValidLoadedIndex(idx, num_bands) ==
    IsInstanceInt(idx) /\ 0 <= IntValue(idx) /\ IntValue(idx) < num_bands

\* load_band_mapping, the file dialog answered with a file of this content.
LoadBandMapping(file) ==
    /\ pc = "gui"
    /\ indices_panel.constructed
    /\ IF ~TruthyImagery(indices_panel.imagery_data)
       THEN /\ messagebox' = ShowMessage("showwarning", "Load Mapping",
                   <<"Load imagery before loading a band mapping.">>)
            /\ UNCHANGED indices_panel
       ELSE IF file.json = "missing"
       THEN /\ messagebox' = ShowMessage("showerror", "Load Error",
                   <<"File not found:\n", file>>)
            /\ UNCHANGED indices_panel
       ELSE IF file.json = "invalid"
       THEN /\ messagebox' = ShowMessage("showerror", "Load Error",
                   <<"Failed to decode JSON. The file might be corrupted or not a valid mapping file.">>)
            /\ UNCHANGED indices_panel
       ELSE IF file.json # "object"
       THEN \* raise TypeError("Invalid mapping file format.")
            /\ messagebox' = ShowMessage("showerror", "Load Error",
                   <<"Invalid mapping file content: ",
                     "Invalid mapping file format.">>)
            /\ UNCHANGED indices_panel
       ELSE LET loaded_mapping == json_load(file)
                names == indices_panel.imagery_data.band_names
                num_bands == Len(names)
                applied ==
                    {bt \in DOMAIN indices_panel.band_vars :
                        /\ bt \in DOMAIN loaded_mapping
                        /\ ValidLoadedIndex(loaded_mapping[bt], num_bands)}
                p1 == [indices_panel EXCEPT
                          !.band_vars =
                              [bt \in DOMAIN indices_panel.band_vars |->
                                  IF bt \in applied
                                  THEN ComboValue(IntValue(loaded_mapping[bt]),
                                                  names)
                                  ELSE <<>>],
                          !.band_mapping =
                              [bt \in applied |-> loaded_mapping[bt]]]
            IN  /\ indices_panel' = update_indices_list(COMMON_INDICES, p1)
                /\ messagebox' = ShowMessage("showinfo", "Load Mapping",
                       <<"Band mapping loaded successfully from:\n", file>>)
    /\ UNCHANGED <<COMMON_INDICES, band_names, bands, band_mapping, index_name,
                   pc, ret, plot_panel, control_panel>>

\* save_band_mapping, the file dialog answered with a file name.
SaveBandMapping ==
    /\ pc = "gui"
    /\ indices_panel.constructed
    /\ IF DOMAIN indices_panel.band_mapping = {}
       THEN /\ messagebox' = ShowMessage("showwarning", "Save Mapping",
                   <<"No band mapping defined to save.">>)
            /\ UNCHANGED indices_panel
       ELSE LET m == update_all_band_mappings(indices_panel)
            IN  /\ indices_panel' = [indices_panel EXCEPT !.band_mapping = m]
                /\ messagebox' = ShowMessage("showinfo", "Save Mapping",
                       <<"Band mapping saved successfully to:\n",
                         json_dump(m)>>)
    /\ UNCHANGED <<COMMON_INDICES, band_names, bands, band_mapping, index_name,
                   pc, ret, plot_panel, control_panel>>

---------------------------------------------------------------------------
(* The application (src/src/gui/app.py): the control panel loads imagery   *)
(* and hands it to the plot panel, whose set_imagery_data calls back       *)
(* on_imagery_loaded, which updates the control panel and the indices      *)
(* panel.  The menu entry "Export Index Raster..." stays disabled (its     *)
(* enabling in _calculate_index looks for file_menu on a ttk.Frame), so    *)
(* the export is reached through the button of the indices panel only.     *)

\* ControlPanel.__init__
NewControlPanel ==
    [constructed |-> TRUE,
     imagery_data |-> PyNone,
     selected_bands_indices |-> <<>>,
     rgb_vars |-> <<<<>>, <<>>, <<>>>>]

\* sub in name
Contains(name, sub) ==
    \E i \in 1..(Len(name) - Len(sub) + 1) :
        SubSeq(name, i, i + Len(sub) - 1) = sub

\* name.lower().startswith("band")
StartsWithBand(name) ==
    Len(name) >= 4 /\ lower(SubSeq(name, 1, 4)) = <<"b", "a", "n", "d">>

\* The 1-based bands update_bands suggests for red, green and blue.
SuggestedRgb(names) ==
    IF \/ Len(names) >= 7 /\ \E i \in 1..Len(names) : StartsWithBand(names[i])
       \/ /\ \E i \in 1..Len(names) :
                \/ Contains(names[i], <<"B", "0", "4">>)
                \/ Contains(names[i], <<"B", "4">>)
          /\ \E i \in 1..Len(names) :
                \/ Contains(names[i], <<"B", "0", "3">>)
                \/ Contains(names[i], <<"B", "3">>)
          /\ \E i \in 1..Len(names) :
                \/ Contains(names[i], <<"B", "0", "2">>)
                \/ Contains(names[i], <<"B", "2">>)
    THEN <<4, 3, 2>>
    ELSE <<3, 2, 1>>

\* ControlPanel.update_bands(imagery_data), for the imagery dict of a load:
\* the panel after the call, before the plot of the first band.
update_bands(cp, imagery_data) ==
    LET names == imagery_data.band_names
        num_bands == Len(names)
        rgb == SuggestedRgb(names)
    IN  [cp EXCEPT
            !.imagery_data = imagery_data,
            !.rgb_vars =
                [c \in 1..3 |->
                    IF num_bands >= 3 /\ rgb[c] <= num_bands
                    THEN FormatInt(rgb[c]) ELSE <<>>],
            !.selected_bands_indices =
                IF num_bands > 0 THEN <<0>> ELSE cp.selected_bands_indices]

\* PlotPanel.set_imagery_data(imagery_data) with the callback
\* on_imagery_loaded: the three panels after the call.
set_imagery_data(cat, pp, cp, ip, imagery_data) ==
    LET pp0 == [pp EXCEPT !.imagery_data = imagery_data,
                          !.current_index_array = PyNone,
                          !.current_index_name = PyNone]
        pp1 == IF HasBands(imagery_data)
               THEN update_plot(pp0, imagery_data, BandsOptions(<<0>>))
               ELSE show_welcome(pp0)
    IN  IF TruthyImagery(imagery_data)
        THEN [plot_panel |->
                  \* update_bands ends in on_band_select, which plots band 0
                  IF Len(imagery_data.band_names) > 0
                  THEN update_plot(pp1, imagery_data, BandsOptions(<<0>>))
                  ELSE pp1,
              control_panel |-> update_bands(cp, imagery_data),
              indices_panel |-> update_with_imagery(cat, ip, imagery_data)]
        ELSE [plot_panel |-> pp1, control_panel |-> cp, indices_panel |-> ip]

\* ControlPanel.load_imagery, the file dialog answered: loaded is the dict
\* load_satellite_imagery returned, or None when it raised.
LoadImagery(loaded) ==
    /\ pc = "gui"
    /\ LET after == set_imagery_data(COMMON_INDICES, plot_panel,
                                     control_panel, indices_panel, loaded)
       IN  /\ plot_panel' = after.plot_panel
           /\ control_panel' = after.control_panel
           /\ indices_panel' = after.indices_panel
    /\ messagebox' =
          IF TruthyImagery(loaded) THEN NoMessage
          ELSE ShowMessage("showerror", "Load Error",
                           <<"Failed to load or process imagery:\n">>)
    /\ UNCHANGED <<COMMON_INDICES, band_names, bands, band_mapping, index_name,
                   pc, ret>>

\* The menu entry "Reset View": PlotPanel.reset_view.
ResetView ==
    /\ pc = "gui"
    /\ LET after == set_imagery_data(COMMON_INDICES, plot_panel,
                                     control_panel, indices_panel,
                                     plot_panel.imagery_data)
       IN  /\ plot_panel' = after.plot_panel
           /\ control_panel' = after.control_panel
           /\ indices_panel' = after.indices_panel
    /\ messagebox' = NoMessage
    /\ UNCHANGED <<COMMON_INDICES, band_names, bands, band_mapping, index_name,
                   pc, ret>>

\* ControlPanel.trigger_plot_update: the plot panel after the call.
trigger_plot_update(pp, cp) ==
    IF ~TruthyImagery(cp.imagery_data) THEN pp
    ELSE IF cp.selected_bands_indices = <<>> THEN pp
    ELSE update_plot(pp, cp.imagery_data,
                     BandsOptions(cp.selected_bands_indices))

\* The user changes the selection of the band list to the items selection
\* (0-based, in the order of the list): on_band_select.
OnBandSelect(selection) ==
    /\ pc = "gui"
    /\ TruthyImagery(control_panel.imagery_data)
    /\ \A i \in 1..Len(selection) :
          selection[i] < Len(control_panel.imagery_data.band_names)
    /\ control_panel' =
          [control_panel EXCEPT !.selected_bands_indices = selection]
    /\ plot_panel' = trigger_plot_update(plot_panel, control_panel')
    /\ messagebox' = NoMessage
    /\ UNCHANGED <<COMMON_INDICES, band_names, bands, band_mapping, index_name,
                   pc, ret, indices_panel>>

\* The button "Plot Selected Band(s)" and the display settings, which all
\* run trigger_plot_update.
TriggerPlotUpdate ==
    /\ pc = "gui"
    /\ plot_panel' = trigger_plot_update(plot_panel, control_panel)
    /\ messagebox' = NoMessage
    /\ UNCHANGED <<COMMON_INDICES, band_names, bands, band_mapping, index_name,
                   pc, ret, indices_panel, control_panel>>

\* The button "Create RGB Composite", pressed with the texts rgb in the
\* three read-only comboboxes (the suggested ones, or ones the user picked).
CreateRgbComposite(rgb) ==
    /\ pc = "gui"
    /\ control_panel' = [control_panel EXCEPT !.rgb_vars = rgb]
    /\ IF ~TruthyImagery(control_panel.imagery_data)
       THEN /\ messagebox' = ShowMessage("showwarning", "No Imagery",
                   <<"Please load imagery first.">>)
            /\ UNCHANGED plot_panel
       ELSE IF \E c \in 1..3 : rgb[c] = <<>>
       THEN /\ messagebox' = ShowMessage("showinfo", "Info",
                   <<"Please select bands for R, G, and B channels.">>)
            /\ UNCHANGED plot_panel
       ELSE LET idx == [c \in 1..3 |-> ParseInt(rgb[c])]
                num_bands == Len(control_panel.imagery_data.bands)
            IN  IF \E c \in 1..3 :
                      \/ ~idx[c].ok
                      \/ ~(0 <= idx[c].v - 1 /\ idx[c].v - 1 < num_bands)
                THEN /\ messagebox' = ShowMessage("showerror", "RGB Error",
                            <<"Invalid band selection for RGB composite:\n">>)
                     /\ UNCHANGED plot_panel
                ELSE /\ plot_panel' =
                            update_plot(plot_panel, control_panel.imagery_data,
                                        RgbOptions(idx[1].v - 1, idx[2].v - 1,
                                                   idx[3].v - 1))
                     /\ messagebox' = NoMessage
    /\ UNCHANGED <<COMMON_INDICES, band_names, bands, band_mapping, index_name,
                   pc, ret, indices_panel>>

\* current_index_array.shape: an array of the model is one row of cells.
shape(array) == <<1, Len(array.data)>>

\* current_index_array.dtype: calculate_index returns float32.
index_dtype == "float32"

\* The keys export_index_raster removes from the metadata.
RemovedKeys == {"compress", "blockxsize", "blockysize", "tiled"}

\* The keyword arguments when only count and nodata are replaced.
export_metadata_CountAndNodataOnly(metadata) ==
    [key \in DOMAIN metadata \cup {"count", "nodata"} |->
        CASE key = "count" -> 1
          [] key = "nodata" -> NaN
          [] OTHER -> metadata[key]]

\* metadata.copy(), .update({dtype, count, nodata, driver}) and the four
\* pops: the keyword arguments of rasterio.open(file_path, 'w', **metadata).
export_metadata(metadata) ==
    [key \in (DOMAIN metadata \cup {"dtype", "count", "nodata", "driver"})
                \ RemovedKeys |->
        CASE key = "dtype" -> index_dtype
          [] key = "count" -> 1
          [] key = "nodata" -> NaN
          [] key = "driver" -> "GTiff"
          [] OTHER -> metadata[key]]

\* The raster file rasterio writes: its keyword arguments and its band 1.
RasterFile(metadata, array) ==
    [type |-> "file", metadata |-> metadata, band1 |-> array]

\* The button "Export Current Index...", which can be pressed while it is
\* enabled: trigger_export_index and PlotPanel.export_index_raster, the
\* file dialog answered.  Where the message box cites file_path, the model
\* cites the file that was written.
ExportIndexRaster ==
    /\ pc = "gui"
    /\ indices_panel.export_button = "normal"
    /\ messagebox' =
          IF \/ plot_panel.current_index_array = PyNone
             \/ plot_panel.current_index_name = PyNone
          THEN ShowMessage("showwarning", "Export Error",
                   <<"No spectral index is currently displayed or calculated.">>)
          ELSE IF \/ ~TruthyImagery(plot_panel.imagery_data)
                  \/ "metadata" \notin DOMAIN plot_panel.imagery_data
          THEN ShowMessage("showerror", "Export Error",
                   <<"Cannot export index: Original imagery metadata is missing.">>)
          ELSE IF shape(plot_panel.current_index_array) #
                      <<plot_panel.imagery_data.metadata["height"],
                        plot_panel.imagery_data.metadata["width"]>>
          THEN ShowMessage("showerror", "Export Error",
                   <<"Index dimensions do not match original image metadata.">>)
          ELSE ShowMessage("showinfo", "Export Successful",
                   <<"Index raster '", plot_panel.current_index_name.value,
                     "' exported successfully to:\n",
                     RasterFile(
                         export_metadata(plot_panel.imagery_data.metadata),
                         plot_panel.current_index_array)>>)
    /\ UNCHANGED <<COMMON_INDICES, band_names, bands, band_mapping, index_name,
                   pc, ret, indices_panel, plot_panel, control_panel>>

\* What a load gives the panels: a two-band image whose names the guesser
\* recognises, a four-band image with names it does not (the positional
\* fallback proposes NIR = 4, past the last band), an image with no band,
\* and None for a load that raised.
PanelImagery ==
    {Imagery(<< <<"B", "0", "8">>, <<"R", "e", "d">> >>,
             <<NdArray(<<Num(3)>>), NdArray(<<Num(1)>>)>>),
     Imagery([i \in 1..4 |-> <<"x", "1">>],
             [i \in 1..4 |-> NdArray(<<Num(2)>>)]),
     Imagery(<<>>, <<>>),
     PyNone}

\* The band types whose combobox the user changes.
EditedRoles == {"NIR"}

\* Values of a member of a mapping file: positions inside and outside the
\* two images, a negative one, 1.0, true, false, a string and null.
MappingFileValues ==
    {JNumber(0, FALSE), JNumber(1, FALSE), JNumber(2, FALSE),
     JNumber(4, FALSE), JNumber(-1, FALSE), JNumber(1, TRUE),
     JBool(TRUE), JBool(FALSE), JString, JNull}

\* Mapping files: an object with no member or with NIR alone; objects with
\* NIR, Red and a member that is no band type; an array; no file; no JSON.
MappingFiles ==
    {JObject(f) : f \in DictsOver({"NIR"}, MappingFileValues)}
    \cup {JObject(f @@ ("Pan" :> JNumber(0, FALSE))) :
             f \in [{"NIR", "Red"} -> {JNumber(0, FALSE), JNumber(2, FALSE)}]}
    \cup {JArray, MissingFile, NotJson}

InitPanel ==
    /\ COMMON_INDICES = CatalogSource
    /\ band_names = <<>>
    /\ bands = PyList(<<>>)
    /\ band_mapping = PyNone
    /\ index_name = ""
    /\ pc = "gui"
    /\ ret = NotCalled
    /\ indices_panel = NewPanel
    /\ plot_panel = NewPlotPanel
    /\ control_panel = NewControlPanel
    /\ messagebox = NoMessage
    /\ recorded = <<>>

\* The texts the comboboxes offer: none before an image with bands is there.
PanelComboValues ==
    IF indices_panel.constructed /\ HasBands(indices_panel.imagery_data)
    THEN combo_values(indices_panel.imagery_data.band_names)
    ELSE {}

NextPanel ==
    \/ \E loaded \in PanelImagery : LoadImagery(loaded) /\ UNCHANGED recorded
    \/ \E band_type \in EditedRoles : \E selected_value \in PanelComboValues :
          SelectBand(band_type, selected_value) /\ UNCHANGED recorded
    \/ UpdateIndicesList /\ UNCHANGED recorded
    \/ \E name \in Range(Keys(COMMON_INDICES)) :
          PanelCalculateIndex(name) /\ UNCHANGED recorded
    \/ \E file \in MappingFiles :
          LoadBandMapping(file) /\ UNCHANGED recorded
    \/ SaveBandMapping /\ UNCHANGED recorded
    \/ ResetView /\ UNCHANGED recorded

SpecPanel == InitPanel /\ [][NextPanel]_vars

---------------------------------------------------------------------------
(* The application driven through all its handlers, on few inputs.         *)

\* imagery_data with the metadata of another raster format.
WithMetadata(imagery_data, driver, dtype, nodata) ==
    [imagery_data EXCEPT
        !.metadata = Metadata(driver, dtype, nodata, imagery_data.bands)]

\* What a load gives: a two-band GeoTIFF of unsigned integers, a four-band
\* ENVI raster of floats with no-data 0, and None for a load that raised.
AppImagery ==
    {Imagery(<< <<"B", "0", "8">>, <<"R", "e", "d">> >>,
             <<NdArray(<<Num(3)>>), NdArray(<<Num(1)>>)>>),
     WithMetadata(Imagery([i \in 1..4 |-> <<"x", "1">>],
                          [i \in 1..4 |-> NdArray(<<Num(2)>>)]),
                  "ENVI", "float32", Num(0)),
     PyNone}

\* Selections of the band list: the first two bands, and none.
AppSelections == {<<0, 1>>, <<>>}

\* The texts of the three RGB comboboxes when the button is pressed: as
\* update_bands left them, or band 1 picked in each.
AppRgbTexts ==
    {control_panel.rgb_vars}
    \cup (IF HasBands(control_panel.imagery_data)
          THEN {[c \in 1..3 |-> FormatInt(1)]} ELSE {})

\* Mapping files: NIR on the second band, and no file.
AppMappingFiles == {JObject("NIR" :> JNumber(1, FALSE)), MissingFile}

\* The indices whose button the user presses.
AppIndexNames == {"NDVI", "NDWI"}

InitApp ==
    /\ COMMON_INDICES = CatalogSource
    /\ band_names = <<>>
    /\ bands = PyList(<<>>)
    /\ band_mapping = PyNone
    /\ index_name = ""
    /\ pc = "gui"
    /\ ret = NotCalled
    /\ indices_panel = NewPanel
    /\ plot_panel = NewPlotPanel
    /\ control_panel = NewControlPanel
    /\ messagebox = NoMessage
    /\ recorded = <<>>

\* The history of the calculations: how the most recent index calculation
\* since the last update_with_imagery ended ("succeeded" when it showed no
\* message box), nothing when there was none.  calculated: the handler is
\* _calculate_index; updated: the handler ran update_with_imagery.
Note(calculated, updated) ==
    recorded' =
        IF calculated
        THEN <<IF messagebox'.kind = "none" THEN "succeeded" ELSE "failed">>
        ELSE IF updated THEN <<>>
        ELSE recorded

NextApp ==
    \/ \E loaded \in AppImagery :
          LoadImagery(loaded) /\ Note(FALSE, TruthyImagery(loaded))
    \/ ResetView /\ Note(FALSE, TruthyImagery(plot_panel.imagery_data))
    \/ TriggerPlotUpdate /\ Note(FALSE, FALSE)
    \/ \E selection \in AppSelections :
          OnBandSelect(selection) /\ Note(FALSE, FALSE)
    \/ \E rgb \in AppRgbTexts : CreateRgbComposite(rgb) /\ Note(FALSE, FALSE)
    \/ \E band_type \in EditedRoles : \E selected_value \in PanelComboValues :
          SelectBand(band_type, selected_value) /\ Note(FALSE, FALSE)
    \/ UpdateIndicesList /\ Note(FALSE, FALSE)
    \/ \E name \in AppIndexNames :
          PanelCalculateIndex(name) /\ Note(TRUE, FALSE)
    \/ \E file \in AppMappingFiles :
          LoadBandMapping(file) /\ Note(FALSE, FALSE)
    \/ SaveBandMapping /\ Note(FALSE, FALSE)
    \/ ExportIndexRaster /\ Note(FALSE, FALSE)

SpecApp == InitApp /\ [][NextApp]_vars

---------------------------------------------------------------------------
(* The program: either a client that calls the functions of indices.py,    *)
(* or the application, whose handlers call them.                           *)

InitProgram == InitSession \/ InitPanel

NextProgram == NextSession \/ NextPanel

SpecProgram == InitProgram /\ [][NextProgram]_vars

---------------------------------------------------------------------------
(* Properties of get_available_indices. *)

Done == pc = "done"

\* C1: for every role mapping m (a dict on any subset of the six roles, the
\* empty dict, or None) and every index n of the catalog,
\* get_available_indices(m) contains n if and only if every role n requires
\* is a key of m; the empty mapping (and None) yields the empty list, and
\* the call returns rather than raises.
C1_AvailableIffRolesMapped ==
    Done =>
        /\ ret.kind = "return"
        /\ ret.value.type = "list"
        /\ \A i \in 1..Len(COMMON_INDICES) :
              (COMMON_INDICES[i].key \in Range(ret.value.items))
              <=> /\ band_mapping.type = "dict"
                  /\ \A r \in Range(COMMON_INDICES[i].bands) :
                        r \in DOMAIN band_mapping.items
        /\ (band_mapping = PyNone \/ band_mapping = PyDict(EmptyDict))
              => ret.value.items = <<>>

\* A mapping with NIR and Red but no Green: NDVI is listed, NDWI is not.
C1_Witness ==
    /\ Done
    /\ band_mapping.type = "dict"
    /\ DOMAIN band_mapping.items = {"NIR", "Red", "SWIR2"}
    /\ "NDVI" \in Range(ret.value.items)
    /\ "NBR" \in Range(ret.value.items)
    /\ "NDWI" \notin Range(ret.value.items)

---------------------------------------------------------------------------
(* Properties of guess_band_types. *)

\* What the pattern scan alone decided for the current band names.
Scanned == ScanTypes(band_names, Len(patterns))

Guessed == ret.value.items

\* C2: the mapping guess_band_types returns never gives two different
\* roles the same band position, whether the roles were assigned by the
\* pattern scan or by the positional fallback.
C2_NoPositionTwice ==
    Done =>
        \A r1 \in DOMAIN Guessed : \A r2 \in DOMAIN Guessed :
            r1 # r2 => Guessed[r1] # Guessed[r2]

\* Four or more bands where the scan consumed position 1 for a role other
\* than Blue, so that the fallback must skip Blue = 1, and where the
\* fallback did assign another role.
C2_Witness ==
    /\ Done
    /\ Len(band_names) >= 4
    /\ 1 \in Scanned.assigned_indices
    /\ "Blue" \notin DOMAIN Scanned.band_mapping
    /\ "Blue" \notin DOMAIN Guessed
    /\ \E r \in DOMAIN Guessed : r \notin DOMAIN Scanned.band_mapping
    /\ \E r \in DOMAIN Guessed : r \in DOMAIN Scanned.band_mapping

\* C3: every position of the returned mapping is a position of the band
\* list: 0 <= position < number of band names.
C3_PositionsInRange ==
    Done =>
        \A r \in DOMAIN Guessed :
            0 <= Guessed[r] /\ Guessed[r] < Len(band_names)

\* The first (most specific) pattern of the j-th band type is found in
\* the name.
FirstPatternFound(j, name) ==
    re_search(patterns[j].type_patterns[1], lower(name))

\* C4: when some band name matches the first pattern of a role R, R is
\* assigned to the position of a name matching that pattern, and no role
\* after R in the order NIR, SWIR2, SWIR1, Red, Green, Blue has that
\* position.
C4_MostSpecificPatternWins ==
    Done =>
        \A j \in 1..Len(patterns) :
            LET R == patterns[j].band_type
            IN  (\E i \in 1..Len(band_names) : FirstPatternFound(j, band_names[i]))
                => /\ R \in DOMAIN Guessed
                   /\ Guessed[R] < Len(band_names)
                   /\ FirstPatternFound(j, band_names[Guessed[R] + 1])
                   /\ \A j2 \in (j + 1)..Len(patterns) :
                         patterns[j2].band_type \in DOMAIN Guessed
                         => Guessed[patterns[j2].band_type] # Guessed[R]

\* The order in which the scan visits the band types.
RoleOrder == <<"NIR", "SWIR2", "SWIR1", "Red", "Green", "Blue">>

\* The value that stands for "no position".
Unassigned == -1

\* The positions the scan gives the first k band types of RoleOrder: each
\* type gets the lowest position that no earlier type was given and whose
\* lower-cased name some pattern of the type is found in, and Unassigned
\* when there is none.
RECURSIVE ScanPositions(_, _)
ScanPositions(names, k) ==
    IF k = 0 THEN <<>>
    ELSE LET earlier == ScanPositions(names, k - 1)
             free == {i \in 0..(Len(names) - 1) :
                         i \notin Range(earlier) /\ TypeFound(k, names[i + 1])}
         IN  Append(earlier,
                    IF free = {} THEN Unassigned
                    ELSE CHOOSE i \in free : \A y \in free : i <= y)

RoleIndex(R) == CHOOSE k \in 1..Len(RoleOrder) : RoleOrder[k] = R

\* The band type is resolved by a pattern scan that gave the positions pos.
ScanResolved(pos, R) == pos[RoleIndex(R)] # Unassigned

\* The positions the pattern scan consumed.
ScanConsumed(pos) == Range(pos) \ {Unassigned}

\* The positions the fallback proposes for a band count.
FallbackSlots(n) ==
    IF n >= 4
    THEN [R \in {"Blue", "Green", "Red", "NIR"} |->
             CASE R = "Blue" -> 1 [] R = "Green" -> 2
               [] R = "Red" -> 3 [] R = "NIR" -> 4]
    ELSE IF n = 3
    THEN [R \in {"Red", "Green", "Blue"} |->
             CASE R = "Red" -> 0 [] R = "Green" -> 1 [] R = "Blue" -> 2]
    ELSE EmptyDict

\* The band type is resolved by the positional fallback on n bands, after a
\* pattern scan that gave the positions pos.
FallbackResolved(pos, n, R) ==
    /\ ~ScanResolved(pos, R)
    /\ R \in DOMAIN FallbackSlots(n)
    /\ FallbackSlots(n)[R] \notin ScanConsumed(pos)

\* The positions of the scan of the current band names.
ScanOfBandNames == ScanPositions(band_names, Len(RoleOrder))

\* C15: guess_band_types returns, without an error, a mapping whose keys
\* are among the six roles; a role is a key exactly when the pattern scan
\* or the positional fallback resolved it, an unresolved role is absent,
\* and an empty sequence of band names gives the empty mapping.
C15_KeysAreTheResolvedRoles ==
    Done =>
        LET pos == ScanOfBandNames
            n == Len(band_names)
        IN  /\ ret.kind = "return"
            /\ ret.value.type = "dict"
            /\ DOMAIN Guessed \subseteq Roles
            /\ \A R \in Roles :
                  R \in DOMAIN Guessed <=>
                      (ScanResolved(pos, R) \/ FallbackResolved(pos, n, R))
            /\ band_names = <<>> => Guessed = EmptyDict

\* Four bands: NIR resolved by the scan, Green by the fallback, and SWIR1
\* and SWIR2, which nothing resolved, absent.
C15_Witness ==
    /\ Done
    /\ Len(band_names) = 4
    /\ ScanResolved(ScanOfBandNames, "NIR")
    /\ FallbackResolved(ScanOfBandNames, Len(band_names), "Green")
    /\ DOMAIN Guessed = {"NIR", "Blue", "Green", "Red"}
    /\ Guessed["Green"] = 2

AddedByFallback(pos) == {R \in DOMAIN Guessed : ~ScanResolved(pos, R)}

\* C19: the fallback changes nothing the scan decided.  With four or more
\* bands it adds Blue = 1, Green = 2, Red = 3, NIR = 4, with three bands
\* Red = 0, Green = 1, Blue = 2, each only when the role is unassigned and
\* the position was not consumed by the scan; with one or two bands it adds
\* nothing; it never assigns SWIR1 or SWIR2.
C19_FallbackOnlyFillsGaps ==
    Done =>
        LET n == Len(band_names)
            pos == ScanOfBandNames
            added == AddedByFallback(pos)
        IN  /\ \A R \in Roles :
                  ScanResolved(pos, R) =>
                      /\ R \in DOMAIN Guessed
                      /\ Guessed[R] = pos[RoleIndex(R)]
            /\ \A R \in Roles :
                  R \in added <=>
                      /\ R \in DOMAIN FallbackSlots(n)
                      /\ FallbackSlots(n)[R] \notin ScanConsumed(pos)
                      /\ ~ScanResolved(pos, R)
            /\ \A R \in added : Guessed[R] = FallbackSlots(n)[R]
            /\ n \in {1, 2} => added = {}
            /\ added \cap {"SWIR1", "SWIR2"} = {}

\* Three bands with NIR found by the scan at position 1: the fallback added
\* Red = 0 and Blue = 2 and left Green, whose position 1 is consumed, out.
C19_Witness ==
    /\ Done
    /\ Len(band_names) = 3
    /\ ScanOfBandNames[RoleIndex("NIR")] = 1
    /\ AddedByFallback(ScanOfBandNames) = {"Red", "Blue"}
    /\ Guessed = [R \in {"NIR", "Red", "Blue"} |->
                     CASE R = "NIR" -> 1 [] R = "Red" -> 0 [] R = "Blue" -> 2]

\* Names that are the bare word swir, not followed by 2.
GenericSwirNames ==
    { <<"S", "W", "I", "R">>,
      <<"s", "w", "i", "r", " ", "b", "a", "n", "d">> }

\* Names of the 1.6 um band: the generic ones, swir followed by 1, and B11.
Swir1Names ==
    GenericSwirNames \cup {<<"S", "W", "I", "R", "1">>, <<"B", "1", "1">>}

\* Names of the 2.2 um band: swir followed by 2, and B12.
Swir2Names ==
    { <<"S", "W", "I", "R", "2">>, <<"S", "W", "I", "R", " ", "2">>,
      <<"B", "1", "2">> }

\* C22: a generic SWIR band name is reported under the role SWIR1 (at its
\* position when no name of the 1.6 um band stands before it), a name of
\* the 2.2 um band is never reported under SWIR1, and the returned mapping
\* never has a key "SWIR".
C22_GenericSwirIsSwir1 ==
    Done =>
        /\ "SWIR" \notin DOMAIN Guessed
        /\ \A i \in 1..Len(band_names) :
              /\ band_names[i] \in GenericSwirNames =>
                    /\ "SWIR1" \in DOMAIN Guessed
                    /\ Guessed["SWIR1"] <= i - 1
                    /\ band_names[Guessed["SWIR1"] + 1] \in Swir1Names
                    /\ (\A h \in 1..(i - 1) : band_names[h] \notin Swir1Names)
                          => Guessed["SWIR1"] = i - 1
              /\ band_names[i] \in Swir2Names =>
                    ("SWIR1" \in DOMAIN Guessed => Guessed["SWIR1"] # i - 1)

\* "SWIR 2" before "SWIR": the first is SWIR2, the generic one is SWIR1.
C22_Witness ==
    /\ Done
    /\ band_names = << <<"S", "W", "I", "R", " ", "2">>, <<"S", "W", "I", "R">> >>
    /\ Guessed = [R \in {"SWIR2", "SWIR1"} |-> IF R = "SWIR2" THEN 0 ELSE 1]

---------------------------------------------------------------------------
(* Properties of calculate_index: the checks of its arguments. *)

\* The arguments of the call under their names in the properties below.
Known == InCatalog(COMMON_INDICES, index_name)

Info == Lookup(COMMON_INDICES, index_name)

Required == Range(Info.bands)

WellTyped == IsListOfArrays(bands) /\ band_mapping.type = "dict"

Mapping == band_mapping.items

MissingRoles == Required \ DOMAIN Mapping

NumBands == Len(bands.items)

\* The required roles whose position p has p < 0 or p >= number of bands.
BadRoles == {r \in Required : Mapping[r] < 0 \/ Mapping[r] >= NumBands}

\* The three structural errors; all are ValueError and differ in their text.
IsUnknownIndex(r) ==
    r.kind = "raise" /\ r.exc = "ValueError" /\ r.msg[1] = "Unknown index: '"

IsMissingBandRole(r) ==
    /\ r.kind = "raise"
    /\ r.exc = "ValueError"
    /\ r.msg[1] = "Missing required band mapping(s) for "

IsBandIndexOutOfRange(r) ==
    r.kind = "raise" /\ r.exc = "ValueError" /\ r.msg[1] = "Mapped index "

\* The roles the missing-band message lists after its colon, in its order.
NamedRoles(msg) == SelectSeq(SubSeq(msg, 4, Len(msg)), LAMBDA t : t # ", ")

\* C5: the structural checks run in the order name, roles, positions and
\* the first that fails decides the error: an unknown index name raises
\* UnknownIndex whatever the bands and the mapping are (malformed ones
\* included); for a band list and a dict, a missing required role raises
\* MissingBandRole even when another required role is out of range; with
\* no role missing, an out-of-range position raises BandIndexOutOfRange;
\* and with all three checks passed the call returns.
C5_ChecksInOrder ==
    Done =>
        /\ ~Known => IsUnknownIndex(ret) /\ ret.msg[2] = index_name
        /\ (Known /\ WellTyped /\ MissingRoles # {}) => IsMissingBandRole(ret)
        /\ (Known /\ WellTyped /\ MissingRoles = {} /\ BadRoles # {})
              => IsBandIndexOutOfRange(ret)
        /\ (Known /\ WellTyped /\ MissingRoles = {} /\ BadRoles = {})
              => ret.kind = "return"

\* One required role is missing, another is mapped out of range, and the
\* error is the missing-role one.
C5_Witness ==
    /\ Done
    /\ Known
    /\ WellTyped
    /\ MissingRoles # {}
    /\ \E r \in Required \cap DOMAIN Mapping : Mapping[r] >= NumBands
    /\ IsMissingBandRole(ret)

\* C6: for a catalog index and a mapping that lacks a required role, the
\* error is MissingBandRole for that index and lists exactly the required
\* roles that are not keys of the mapping, each once.
C6_MissingRolesNamed ==
    (Done /\ Known /\ WellTyped /\ MissingRoles # {}) =>
        /\ IsMissingBandRole(ret)
        /\ ret.msg[2] = index_name
        /\ Range(NamedRoles(ret.msg)) = MissingRoles
        /\ Len(NamedRoles(ret.msg)) = Cardinality(MissingRoles)

\* NDVI with the mapping {Red: 0}: the error names NIR only.
C6_Witness ==
    /\ Done
    /\ index_name = "NDVI"
    /\ WellTyped
    /\ DOMAIN Mapping = {"Red"}
    /\ Mapping["Red"] = 0
    /\ IsMissingBandRole(ret)
    /\ NamedRoles(ret.msg) = <<"NIR">>

\* C7: for a catalog index, k bands and a mapping with every required role,
\* BandIndexOutOfRange is raised if and only if some required role has a
\* position p with p < 0 or p >= k (positions of other roles do not
\* count), and the error cites such a role and its p.
C7_OutOfRangeIff ==
    (Done /\ Known /\ WellTyped /\ MissingRoles = {}) =>
        /\ IsBandIndexOutOfRange(ret) <=> BadRoles # {}
        /\ IsBandIndexOutOfRange(ret)
              => /\ ret.msg[4] \in BadRoles
                 /\ ret.msg[2] = str(Mapping[ret.msg[4]])

\* NDVI over one band with NIR at 0 and Red past the end, and a role NDVI
\* does not need at a negative position: the error cites Red.
C7_Witness ==
    /\ Done
    /\ index_name = "NDVI"
    /\ WellTyped
    /\ NumBands = 1
    /\ DOMAIN Mapping = {"NIR", "Red", "Blue"}
    /\ Mapping["NIR"] = 0
    /\ Mapping["Red"] = 1
    /\ Mapping["Blue"] = -1
    /\ IsBandIndexOutOfRange(ret)
    /\ ret.msg[4] = "Red"
    /\ ret.msg[2] = "1"

---------------------------------------------------------------------------
(* Properties of calculate_index: the arithmetic. *)

\* The cell i of the band the mapping selects for a role.
InputCell(role, i) == bands.items[Mapping[role] + 1].data[i]

\* The value at cell i of an expression of the catalog's formula: a role
\* is the cell of its band, any other identifier a parameter of the entry.
RECURSIVE EvalCell(_, _)
EvalCell(e, i) ==
    IF e.op = "id"
    THEN (IF e.id \in Roles THEN InputCell(e.id, i) ELSE Info.params[e.id])
    ELSE IF e.op = "lit" THEN e.v
    ELSE IF e.op = "+" THEN FAdd(EvalCell(e.l, i), EvalCell(e.r, i))
    ELSE IF e.op = "-" THEN FSub(EvalCell(e.l, i), EvalCell(e.r, i))
    ELSE IF e.op = "*" THEN FMul(EvalCell(e.l, i), EvalCell(e.r, i))
    ELSE FDiv(EvalCell(e.l, i), EvalCell(e.r, i))

\* Numerator and denominator of the index's formula at cell i.
NumeratorAt(i) == EvalCell(Info.formula.l, i)

DenominatorAt(i) == EvalCell(Info.formula.r, i)

OutputCell(i) == ret.value.index.data[i]

Cells == 1..Len(bands.items[1].data)

\* C8: on structurally valid input calculate_index returns, and the output
\* cell is not-a-number (so neither +Inf nor -Inf) wherever the formula's
\* denominator is exactly zero and wherever a cell of a required band is
\* not-a-number.
C8_DegenerateCellsAreNaN ==
    Done =>
        /\ ret.kind = "return"
        /\ \A i \in Cells :
              /\ IsZero(DenominatorAt(i)) => OutputCell(i) = NaN
              /\ (\E r \in Required : IsNaN(InputCell(r, i)))
                    => OutputCell(i) = NaN

\* A cell with a zero denominator under a non-zero numerator, where an
\* unguarded division gives an infinity.
C8_Witness ==
    /\ Done
    /\ ret.kind = "return"
    /\ \E i \in Cells :
          /\ IsZero(DenominatorAt(i))
          /\ NumeratorAt(i).k = "fin"
          /\ ~IsZero(NumeratorAt(i))
          /\ OutputCell(i) = NaN

\* C9: wherever the denominator is not zero the output cell is numerator
\* divided by denominator, both as the catalog's formula of the index gives
\* them over the mapped bands and the catalog's parameters; NDVI of
\* NIR = 3, Red = 1 is 1/2.
C9_FormulaOfTheCatalog ==
    Done =>
        /\ ret.kind = "return"
        /\ Info.formula.op = "/"
        /\ \A i \in Cells :
              /\ ~IsZero(DenominatorAt(i))
                    => OutputCell(i) = FDiv(NumeratorAt(i), DenominatorAt(i))
              /\ (/\ index_name = "NDVI"
                  /\ InputCell("NIR", i) = Num(3)
                  /\ InputCell("Red", i) = Num(1))
                    => OutputCell(i) = Rat(1, 2)

\* SAVI of NIR = 3, Red = 1 with L = 0.5: (3 - 1) * 1.5 / (3 + 1 + 0.5).
C9_Witness ==
    /\ Done
    /\ index_name = "SAVI"
    /\ \E i \in Cells :
          /\ InputCell("NIR", i) = Num(3)
          /\ InputCell("Red", i) = Num(1)
          /\ OutputCell(i) = Rat(2, 3)

\* Two different required roles are mapped to the same position.
SharedBand ==
    \E r1 \in Required : \E r2 \in Required : r1 # r2 /\ Mapping[r1] = Mapping[r2]

\* C21: calculate_index does not require an injective mapping.  When two
\* required roles are mapped to the same in-range position the call
\* returns, each role reading that band: NDVI with NIR and Red on one band
\* is 0 wherever the band's cell is finite and not zero (numerator zero),
\* and not-a-number elsewhere.
C21_RolesMaySharePositions ==
    (Done /\ SharedBand) =>
        /\ ret.kind = "return"
        /\ index_name = "NDVI" =>
              \A i \in Cells :
                  LET v == bands.items[Mapping["NIR"] + 1].data[i]
                  IN  OutputCell(i) =
                          IF v.k = "fin" /\ ~IsZero(v) THEN Num(0) ELSE NaN

\* NDVI with NIR and Red both on band 1, whose cell is 3: the result is 0.
C21_Witness ==
    /\ Done
    /\ index_name = "NDVI"
    /\ Mapping["NIR"] = 1
    /\ Mapping["Red"] = 1
    /\ bands.items[2].data[1] = Num(3)
    /\ ret.kind = "return"
    /\ OutputCell(1) = Num(0)

\* The validation step of calculate_index that the current arguments fail:
\* the name lookup, the type checks, the check of the required roles, the
\* check of their positions, or none.
FailedStep ==
    IF ~Known THEN "name"
    ELSE IF ~WellTyped THEN "types"
    ELSE IF MissingRoles # {} THEN "roles"
    ELSE IF BadRoles # {} THEN "positions"
    ELSE "none"

ValidationSteps == {"name", "types", "roles", "positions"}

\* The exception class calculate_index raises for a call that fails the
\* given step and no earlier one.
KindRaisedAt(step) ==
    LET no_bands == PyList(<<>>)
        no_roles == PyDict(EmptyDict)
        both == PyDict([r \in {"NIR", "Red"} |-> 0])
    IN  CASE step = "name" ->
               calculate_index(COMMON_INDICES, no_bands, no_roles, UnknownName).exc
          [] step = "types" ->
               calculate_index(COMMON_INDICES, PyStr, no_roles, "NDVI").exc
          [] step = "roles" ->
               calculate_index(COMMON_INDICES, no_bands, no_roles, "NDVI").exc
          [] step = "positions" ->
               calculate_index(COMMON_INDICES, no_bands, both, "NDVI").exc

\* C20 as stated: the three structural failures and the malformed-input
\* failure are raised as mutually distinct error kinds, so that the kind of
\* a failure is the kind of no other validation step.
C20_KindAloneTellsTheStep ==
    (Done /\ ret.kind = "raise") =>
        \A step \in ValidationSteps \ {FailedStep} : ret.exc # KindRaisedAt(step)

\* C20, amended: malformed input is raised as TypeError and each of the
\* three structural failures as ValueError; the kind tells malformed input
\* from a structural failure, and the structural failures differ from one
\* another in the text of their message only.
C20_KindTellsMalformedFromStructural ==
    (Done /\ ret.kind = "raise") =>
        /\ FailedStep \in ValidationSteps
        /\ ret.exc = "TypeError" <=> FailedStep = "types"
        /\ ret.exc = "ValueError" <=> FailedStep \in {"name", "roles", "positions"}
        /\ IsUnknownIndex(ret) <=> FailedStep = "name"
        /\ IsMissingBandRole(ret) <=> FailedStep = "roles"
        /\ IsBandIndexOutOfRange(ret) <=> FailedStep = "positions"

\* A band list that holds something other than an array failed the type
\* check of a catalog index with a TypeError.
C20_Witness ==
    /\ Done
    /\ Known
    /\ bands = PyList(<<PyStr>>)
    /\ band_mapping.type = "dict"
    /\ FailedStep = "types"
    /\ ret.kind = "raise"
    /\ ret.exc = "TypeError"

\* C14: a successful calculate_index(bands, m, n) returns the description,
\* the colormap and the range of the catalog entry whose key is n, and of
\* no other entry.
C14_HintsOfTheNamedEntry ==
    (Done /\ ret.kind = "return") =>
        \A i \in 1..Len(COMMON_INDICES) :
            LET entry == COMMON_INDICES[i]
                same == /\ ret.value.description = entry.description
                        /\ ret.value.colormap = entry.colormap
                        /\ ret.value.range = entry.range
            IN  IF entry.key = index_name THEN same ELSE ~same

\* NDSI, which shares its bands, formula, colormap and range with MNDWI,
\* returned its own description.
C14_Witness ==
    /\ Done
    /\ index_name = "NDSI"
    /\ ret.kind = "return"
    /\ ret.value.description = Entry_NDSI.description
    /\ ret.value.colormap = "Blues"
    /\ ret.value.range = <<Rat(-1, 2), Num(1)>>

---------------------------------------------------------------------------
(* Properties of the catalog. *)

\* The table of the specification: index, required roles, parameters.
SpecTable ==
    << [key |-> "NDVI", roles |-> {"NIR", "Red"}, params |-> EmptyDict],
       [key |-> "NDWI", roles |-> {"Green", "NIR"}, params |-> EmptyDict],
       [key |-> "MNDWI", roles |-> {"Green", "SWIR1"}, params |-> EmptyDict],
       [key |-> "NDBI", roles |-> {"SWIR1", "NIR"}, params |-> EmptyDict],
       [key |-> "SAVI", roles |-> {"NIR", "Red"},
        params |-> [L |-> Rat(1, 2)]],
       [key |-> "EVI", roles |-> {"NIR", "Red", "Blue"},
        params |-> [G |-> Rat(5, 2), C1 |-> Num(6), C2 |-> Rat(15, 2),
                    L |-> Num(1)]],
       [key |-> "NDSI", roles |-> {"Green", "SWIR1"}, params |-> EmptyDict],
       [key |-> "NDMI", roles |-> {"NIR", "SWIR1"}, params |-> EmptyDict],
       [key |-> "BSI", roles |-> {"SWIR1", "Red", "NIR", "Blue"},
        params |-> EmptyDict],
       [key |-> "NBR", roles |-> {"NIR", "SWIR2"}, params |-> EmptyDict] >>

\* C10: the catalog holds exactly the ten indices of the specification's
\* table, each with exactly the table's required roles and parameters, and
\* no entry lists a role twice.
C10_CatalogIsTheTable ==
    /\ Len(COMMON_INDICES) = Len(SpecTable)
    /\ \A i \in 1..Len(SpecTable) :
          \E j \in 1..Len(COMMON_INDICES) :
              LET e == COMMON_INDICES[j]
              IN  /\ e.key = SpecTable[i].key
                  /\ Range(e.bands) = SpecTable[i].roles
                  /\ Len(e.bands) = Cardinality(SpecTable[i].roles)
                  /\ DOMAIN ParamsOf(e) = DOMAIN SpecTable[i].params
                  /\ \A p \in DOMAIN ParamsOf(e) :
                        ParamsOf(e)[p] = SpecTable[i].params[p]

\* The resolver has read the catalog and offers EVI for a mapping with
\* exactly EVI's three roles.
C10_Witness ==
    /\ Done
    /\ band_mapping.type = "dict"
    /\ DOMAIN band_mapping.items = {"NIR", "Red", "Blue"}
    /\ "EVI" \in Range(ret.value.items)

---------------------------------------------------------------------------
(* Properties of a session. *)

\* C11: two calls of calculate_index with identical bands, mapping and
\* index name give identical results (the same output cells, description,
\* colormap and range, or the same error), whatever calls of
\* guess_band_types, get_available_indices and calculate_index the client
\* made in between.
C11_SameCallSameResult ==
    Len(recorded) = 2 => recorded[1].ret = recorded[2].ret

\* SAVI was computed twice from the same arguments, with other calls in
\* between, and returned 2/3 both times.
C11_Witness ==
    /\ Len(recorded) = 2
    /\ recorded[2].index_name = "SAVI"
    /\ recorded[2].ret.kind = "return"
    /\ recorded[2].ret.value.index = NdArray(<<Rat(2, 3)>>)
    /\ index_name # "SAVI"
    /\ pc = "done"

\* C17: a call of guess_band_types leaves the sequence of band names as it
\* was, and a call of get_available_indices or of calculate_index leaves
\* the band list, every band array and the role mapping as they were,
\* whether the call returns or raises.
C17_CallsLeaveArgumentsAlone ==
    [][(pc = "call" /\ pc' = "done") =>
           /\ band_names' = band_names
           /\ bands' = bands
           /\ band_mapping' = band_mapping]_vars

\* calculate_index has returned SAVI of the bands 3 and 1, and the band
\* list still holds the two arrays it was called with.
C17_Witness ==
    /\ pc = "done"
    /\ index_name = "SAVI"
    /\ ret.kind = "return"
    /\ "index" \in DOMAIN ret.value
    /\ ret.value.index = NdArray(<<Rat(2, 3)>>)
    /\ bands = PyList(<<NdArray(<<Num(3)>>), NdArray(<<Num(1)>>)>>)
    /\ band_mapping = PyDict([r \in {"NIR", "Red"} |-> IF r = "NIR" THEN 0 ELSE 1])

\* C12: after any sequence of calls of guess_band_types,
\* get_available_indices and calculate_index, successful or failing, and of
\* operations of the indices panel, the catalog COMMON_INDICES is what the
\* module defined: no entry is added, removed or changed in its key, band
\* types, parameters, description, colormap or range.
C12_CatalogNeverChanges == COMMON_INDICES = CatalogSource

\* The panel has guessed a mapping, listed the indices and then failed to
\* calculate one of them.
C12_Witness ==
    /\ pc = "gui"
    /\ messagebox.kind = "showerror"
    /\ messagebox.title = "Calculation Error"
    /\ Len(indices_panel.available_indices) > 0

---------------------------------------------------------------------------
(* Properties of the indices panel. *)

\* The mapping file a successful load_band_mapping has just read.
LoadedFile == messagebox.message[2]

JustLoaded ==
    /\ pc = "gui"
    /\ messagebox.kind = "showinfo"
    /\ messagebox.title = "Load Mapping"

\* The band count of the panel's image.
BandCount == Len(indices_panel.imagery_data.bands)

\* The members of the file that are valid for the image: one of the six
\* roles with an integer position p, 0 <= p < band count.
ValidEntries ==
    {k \in DOMAIN LoadedFile.items \cap Roles :
        LET j == LoadedFile.items[k]
        IN  j.json = "number" /\ ~j.frac /\ 0 <= j.n /\ j.n < BandCount}

\* C13: after load_band_mapping has read a mapping file, the session
\* mapping holds exactly the valid entries of the file: a role of the six
\* with an integer position p, 0 <= p < band count of the current image,
\* is mapped to p, and every other member and every role that is not in
\* the file is unmapped.
C13_LoadKeepsValidEntries ==
    JustLoaded =>
        /\ DOMAIN indices_panel.band_mapping = ValidEntries
        /\ \A k \in ValidEntries :
              indices_panel.band_mapping[k] = LoadedFile.items[k].n

---------------------------------------------------------------------------
(* The indices panel and the application                                   *)

\* The guess for the band names of imagery_data, without the roles whose
\* position is no band of it.
GuessWithinBands(imagery_data) ==
    LET guessed == guess_band_types(imagery_data.band_names)
    IN  [bt \in {r \in DOMAIN guessed :
                    guessed[r] < Len(imagery_data.bands)} |-> guessed[bt]]

\* The panel p was just updated with imagery_data.
UpdatedWith(p, imagery_data) ==
    /\ p.imagery_data = imagery_data
    /\ IF HasBands(imagery_data)
       THEN p.band_mapping = GuessWithinBands(imagery_data)
       ELSE p.band_mapping = EmptyDict /\ p.available_indices = <<>>

\* What every step that hands imagery_data to the indices panel shows
\* (LoadImagery and ResetView imply it: it spares their evaluation on the
\* other steps).
Delivers(imagery_data) ==
    /\ indices_panel'.imagery_data = imagery_data
    /\ indices_panel'.export_button = "disabled"
    /\ messagebox' = NoMessage

\* C23: whenever the indices panel is updated with imagery (a successful
\* load, or Reset View delivering the current imagery again), its band
\* mapping becomes the guess for the band names without the positions that
\* are no band, whatever the mapping was before; an update with imagery
\* that has no band, or with no imagery, empties the mapping and the list
\* of available indices.
C23_UpdateRestartsFromTheGuess ==
    [][/\ \A loaded \in PanelImagery :
             (TruthyImagery(loaded) /\ Delivers(loaded) /\ LoadImagery(loaded))
                 => UpdatedWith(indices_panel', loaded)
       /\ (/\ TruthyImagery(plot_panel.imagery_data)
           /\ Delivers(plot_panel.imagery_data)
           /\ ResetView)
             => UpdatedWith(indices_panel', plot_panel.imagery_data)
       /\ UpdatedWith(update_with_imagery(COMMON_INDICES, indices_panel,
                                          PyNone), PyNone)]_vars

\* On the four-band image whose names say nothing the guess is Blue, Green,
\* Red at 1, 2, 3 and NIR at 4, which is no band: the panel holds the first
\* three, and the plot shows the first band.
C23_Witness ==
    /\ HasBands(indices_panel.imagery_data)
    /\ Len(indices_panel.imagery_data.bands) = 4
    /\ "NIR" \in DOMAIN guess_band_types(indices_panel.imagery_data.band_names)
    /\ DOMAIN indices_panel.band_mapping = {"Blue", "Green", "Red"}
    /\ indices_panel.band_mapping["Red"] = 3
    /\ plot_panel.imagery_data = indices_panel.imagery_data
    /\ plot_panel.current_plot_options.plot_type = "bands"
    /\ indices_panel.export_button = "disabled"
    /\ messagebox = NoMessage

\* The last handler wrote an index raster.
Exported ==
    /\ messagebox.kind = "showinfo"
    /\ messagebox.title = "Export Successful"

\* The raster file the last handler wrote.
ExportedFile == messagebox.message[4]

\* The metadata of the image the index was calculated from.
OriginalMetadata == plot_panel.imagery_data.metadata

\* C24 as claimed: the export passes every metadata key of the original
\* image to the writer with its original value, except count, which is 1,
\* and nodata, which is not-a-number.
C24_OnlyCountAndNodataChange ==
    Exported =>
        /\ DOMAIN ExportedFile.metadata = DOMAIN OriginalMetadata
        /\ ExportedFile.metadata["count"] = 1
        /\ ExportedFile.metadata["nodata"] = NaN
        /\ \A key \in DOMAIN OriginalMetadata \ {"count", "nodata"} :
              ExportedFile.metadata[key] = OriginalMetadata[key]

\* C24, amended: the export passes every metadata key of the original image
\* to the writer with its original value, except count, which is 1, nodata,
\* which is not-a-number, dtype, which is the floating-point type of the
\* index array, and driver, which is GTiff; band 1 is the index array.
C24_CountNodataDtypeDriverChange ==
    Exported =>
        /\ DOMAIN ExportedFile.metadata = DOMAIN OriginalMetadata
        /\ ExportedFile.metadata["count"] = 1
        /\ ExportedFile.metadata["nodata"] = NaN
        /\ ExportedFile.metadata["dtype"] = "float32"
        /\ ExportedFile.metadata["driver"] = "GTiff"
        /\ \A key \in DOMAIN OriginalMetadata
                         \ {"count", "nodata", "dtype", "driver"} :
              ExportedFile.metadata[key] = OriginalMetadata[key]
        /\ ExportedFile.band1 = plot_panel.current_index_array

\* An index of the four-band ENVI raster of floats is exported: the file
\* is a GeoTIFF with one band, and keeps the reference system.
C24_Witness ==
    /\ Exported
    /\ OriginalMetadata["driver"] = "ENVI"
    /\ OriginalMetadata["count"] = 4
    /\ OriginalMetadata["nodata"] = Num(0)
    /\ ExportedFile.metadata["driver"] = "GTiff"
    /\ ExportedFile.metadata["crs"] = OriginalMetadata["crs"]

\* C25: the export button is disabled at the start; every step that hands
\* imagery to the indices panel and every failed calculation leave it
\* disabled; a step enables it only if it is a calculation that showed no
\* error and drew the index; so whenever it is enabled, the most recent
\* calculation since the last update of the imagery succeeded.
C25_ExportEnabledOnlyAfterSuccess ==
    /\ indices_panel.export_button = "disabled"
    /\ [](indices_panel.export_button = "normal"
             => recorded = <<"succeeded">>)
    /\ [][/\ \A loaded \in AppImagery :
                (/\ TruthyImagery(loaded)
                 /\ indices_panel'.imagery_data = loaded
                 /\ messagebox' = NoMessage
                 /\ LoadImagery(loaded))
                    => indices_panel'.export_button = "disabled"
          /\ (/\ TruthyImagery(plot_panel.imagery_data)
              /\ indices_panel'.imagery_data = plot_panel.imagery_data
              /\ messagebox' = NoMessage
              /\ ResetView)
                => indices_panel'.export_button = "disabled"
          /\ (messagebox'.kind = "showerror"
                 /\ messagebox'.title = "Calculation Error")
                => indices_panel'.export_button = "disabled"
          /\ (/\ indices_panel.export_button = "disabled"
              /\ indices_panel'.export_button = "normal")
                => /\ recorded' = <<"succeeded">>
                   /\ messagebox' = NoMessage
                   /\ plot_panel'.current_plot_options.plot_type = "index"]_vars

\* NDVI was calculated and drawn: the button is enabled.
C25_Witness ==
    /\ indices_panel.export_button = "normal"
    /\ recorded = <<"succeeded">>
    /\ plot_panel.current_index_name = Str("NDVI")

---------------------------------------------------------------------------
(* The resolver and the evaluator *)

\* Every position of the mapping is a band of the list.
AllPositionsInRange ==
    \A r \in DOMAIN Mapping : 0 <= Mapping[r] /\ Mapping[r] < NumBands

\* The index of the call is one the resolver offers for the mapping.
Offered ==
    index_name \in Range(get_available_indices(COMMON_INDICES, band_mapping))

\* C26: for a list of bands, a mapping whose positions are all bands of the
\* list and a catalog index, calculate_index returns a result when
\* get_available_indices offers the index for the mapping, and raises the
\* missing-role error when it does not.
C26_EvaluatorAgreesWithResolver ==
    (Done /\ WellTyped /\ Known /\ AllPositionsInRange) =>
        IF Offered THEN ret.kind = "return" ELSE IsMissingBandRole(ret)

\* NIR and Red are mapped to bands of the list: NDVI is offered, NDWI is
\* not, and the call for NDWI raises the missing-role error.
C26_Witness ==
    /\ Done /\ WellTyped /\ Known /\ AllPositionsInRange
    /\ DOMAIN Mapping = {"NIR", "Red"}
    /\ "NDVI" \in Range(get_available_indices(COMMON_INDICES, band_mapping))
    /\ index_name = "NDWI"
    /\ ~Offered
    /\ IsMissingBandRole(ret)

\* The texts with which the three defensive branches of calculate_index
\* start their error: the else of the if/elif chain, the check inside the
\* NBR branch, and the handler of KeyError.
DefensiveErrors ==
    {"Index calculation logic not implemented for: ",
     "NBR calculation requires 'SWIR2' band mapping.",
     "Band type '"}

\* C30: every index of the catalog has a branch in the if/elif chain, and
\* the branch subscripts B with required band types of the index only; so
\* no call ends in the error of the else branch, of the check inside the
\* NBR branch, or of the KeyError handler.
C30_DefensiveBranchesUnreachable ==
    /\ \A i \in 1..Len(COMMON_INDICES) :
          /\ COMMON_INDICES[i].key \in BranchNames
          /\ RolesRead(COMMON_INDICES[i].key)
                \subseteq Range(COMMON_INDICES[i].bands)
    /\ (Done /\ ret.kind = "raise") => ret.msg[1] \notin DefensiveErrors

\* NBR is calculated from NIR and SWIR2 on two different bands: the check
\* inside its branch passes.
C30_Witness ==
    /\ Done /\ WellTyped /\ index_name = "NBR"
    /\ DOMAIN Mapping = {"NIR", "SWIR2"}
    /\ Mapping["NIR"] # Mapping["SWIR2"]
    /\ ret.kind = "return"

\* The number of bands of the imagery the indices panel holds.
PanelBandCount ==
    IF TruthyImagery(indices_panel.imagery_data)
    THEN Len(indices_panel.imagery_data.bands) ELSE 0

\* The last handler was a calculation that failed with the error of a
\* position that is no band.
OutOfRangeShown ==
    /\ messagebox.kind = "showerror"
    /\ messagebox.title = "Calculation Error"
    /\ \E i \in 1..Len(messagebox.message) :
          messagebox.message[i] = "Mapped index "

\* C27: in every state of the indices panel, whatever loads, combobox
\* selections, mapping files, presses of Update and calculations led to
\* it, every position of the band mapping is a band of the imagery the
\* panel holds, and no calculation of the panel fails with the error of a
\* position out of range.
C27_PanelPositionsInRange ==
    /\ \A bt \in DOMAIN indices_panel.band_mapping :
          /\ 0 <= indices_panel.band_mapping[bt]
          /\ indices_panel.band_mapping[bt] < PanelBandCount
    /\ ~OutOfRangeShown

\* On the four-band image the guess proposes NIR at position 4, which is no
\* band; the panel left it out, the user picked a band for NIR, and NDVI
\* was calculated and drawn.
C27_Witness ==
    /\ PanelBandCount = 4
    /\ LET guessed == guess_band_types(indices_panel.imagery_data.band_names)
       IN  "NIR" \in DOMAIN guessed /\ guessed["NIR"] = 4
    /\ "NIR" \in DOMAIN indices_panel.band_mapping
    /\ messagebox = NoMessage
    /\ plot_panel.current_index_name = Str("NDVI")

\* The last handler was a load that failed.
LoadFailed ==
    /\ messagebox.kind = "showerror"
    /\ messagebox.title = "Load Error"

\* C28: after any loads, failed ones included, the control panel, the plot
\* panel and the indices panel hold the same imagery, or none of them holds
\* any; after a failed load the indices panel has no band mapping and no
\* index button, and the control panel no band to plot.
C28_PanelsHoldTheSameImagery ==
    /\ control_panel.imagery_data = plot_panel.imagery_data
    /\ indices_panel.imagery_data = plot_panel.imagery_data
    /\ LoadFailed =>
          /\ plot_panel.imagery_data = PyNone
          /\ indices_panel.band_mapping = EmptyDict
          /\ indices_panel.available_indices = <<>>
          /\ control_panel.selected_bands_indices = <<>>

\* The last handler was an export that found no index to write.
NothingToExport ==
    /\ messagebox.kind = "showwarning"
    /\ messagebox.title = "Export Error"

\* C29: whatever calculations, band and RGB plots, loads and Reset View
\* led to the state, while the export button is enabled the plot panel
\* holds an index array and an index name, and no export ends in the
\* warning that no index is displayed.
C29_EnabledExportHasAnIndex ==
    /\ indices_panel.export_button = "normal" =>
          /\ plot_panel.current_index_array # PyNone
          /\ plot_panel.current_index_name # PyNone
    /\ ~NothingToExport

===========================================================================
